---------------------------- MODULE Spec2Model ----------------------------
(***************************************************************************)
(* Model of the MegaPose client session (vpMegaPose.cpp): the typed codec, *)
(* the frame layout, the blocking request/response transport over one      *)
(* socket and the five RPC operations that share the session mutex.        *)
(*                                                                         *)
(* Bytes are the integers 0..255.  A std::vector<uint8_t> is a sequence of *)
(* bytes.  Unsigned values wider than the checker's integers (uint32_t,    *)
(* size_t) are kept as two limbs [hi, lo] of value hi * 65536 + lo, so     *)
(* that the conversions between widths are computed, not assumed.          *)
(***************************************************************************)
EXTENDS Integers, Sequences, FiniteSets, TLC

(***************************************************************************)
(* Bounds of the model.                                                    *)
(***************************************************************************)
\* Number of threads that call the session concurrently.
NThreads == 2
\* Largest number of labels, detections, poses passed to an operation.
MaxLabels == 1
\* Room of the socket's send buffer, in bytes, when it cannot take a whole frame.
SendRoom == 16
\* Largest payload (bytes) given to makeMessage with its bytes enumerated.
MaxPayload == 2

(***************************************************************************)
(* Program constants.                                                      *)
(***************************************************************************)
MEGAPOSE_CODE_SIZE == 4
\* read_size of readMessage: bytes asked of one read() of the payload loop.
READ_SIZE == 4096
\* sizeof(uint32_t), sizeof(int): the width of every length and count field.
SIZEOF_U32 == 4

\* A limb holds 16 bits.
Limb == 256 * 256

Min(a, b) == IF a < b THEN a ELSE b

\* The largest integer of the checker.  An unsigned index or size that is
\* larger lies beyond every buffer of the model and is kept as this value.
IntMax == 2147483646 + 1

\* a + b for naturals, kept at IntMax when larger.
SatAdd(a, b) == IF b > IntMax - a THEN IntMax ELSE a + b

(***************************************************************************)
(* Unsigned integers as limbs.                                             *)
(***************************************************************************)
\* std::vector::size() of a buffer whose bytes are enumerated (a size_t).
SizeOf(buffer) == [hi |-> Len(buffer) \div Limb, lo |-> Len(buffer) % Limb]

\* The implicit conversion size_t -> uint32_t: the low 32 bits.
TruncU32(sz) == [hi |-> sz.hi % Limb, lo |-> sz.lo]

\* The implicit conversion int -> uint32_t (two's complement).
IntToU32(x) == [hi |-> (x \div Limb) % Limb, lo |-> x % Limb]

\* The conversion uint32_t -> int (two's complement).
U32ToInt(u) ==
  IF u.hi < 32768 THEN u.hi * Limb + u.lo ELSE (u.hi - Limb) * Limb + u.lo

\* The byte order of the host the client is built for.
BigEndianHost == FALSE

\* (uint8_t*)&v: the four bytes of the uint32_t v as they lie in the memory
\* of a host, lowest address first.
MemoryOf(bigEndianHost, v) ==
  IF bigEndianHost
  THEN <<v.hi \div 256, v.hi % 256, v.lo \div 256, v.lo % 256>>
  ELSE <<v.lo % 256, v.lo \div 256, v.hi % 256, v.hi \div 256>>

\* *((uint32_t*)ptr): the uint32_t a host reads from four bytes of memory.
ValueOf(bigEndianHost, b) ==
  IF bigEndianHost
  THEN [hi |-> b[1] * 256 + b[2], lo |-> b[3] * 256 + b[4]]
  ELSE [hi |-> b[4] * 256 + b[3], lo |-> b[2] * 256 + b[1]]

\* Mutant of HostToNet: the value is not converted on any host.
HostToNet_NoSwap(bigEndianHost, v) == v

\* htonl and ntohl as values: the identity on a big-endian host, the
\* reversal of the four bytes on a little-endian one.
HostToNet(bigEndianHost, v) ==
  IF bigEndianHost
  THEN v
  ELSE [hi |-> (v.lo % 256) * 256 + v.lo \div 256, lo |-> (v.hi % 256) * 256 + v.hi \div 256]

\* htonl, then the bytes of its result in memory: the four bytes of a
\* uint32_t, most significant first.
htonl(u) == MemoryOf(BigEndianHost, HostToNet(BigEndianHost, u))

\* ntohl of the uint32_t four bytes of memory hold.
ntohl(b) == HostToNet(BigEndianHost, ValueOf(BigEndianHost, b))

\* n < u for a small natural n and a uint32_t u (read_total < size).
LessU32(n, u) == u.hi >= 32768 \/ n < u.hi * Limb + u.lo

\* u as a natural when it fits the checker's integers, else the largest one.
U32ToNat(u) == IF u.hi < 32768 THEN u.hi * Limb + u.lo ELSE IntMax

(***************************************************************************)
(* TypeCodec: encode.                                                      *)
(***************************************************************************)
\* encode(buffer, const int&) on a host of either byte order.
encodeIntOn(bigEndianHost, buffer, object) ==
  buffer \o MemoryOf(bigEndianHost, HostToNet(bigEndianHost, IntToU32(object)))

\* encode(buffer, const int&)
encodeInt(buffer, object) == encodeIntOn(BigEndianHost, buffer, object)

\* encode(buffer, const float&): the 32 bits of the float, as an int of the
\* same bits, through htonl.
encodeFloat(buffer, object) == encodeIntOn(BigEndianHost, buffer, object)

\* encode(buffer, const std::string&)
encodeString(buffer, object) == encodeInt(buffer, Len(object)) \o object

\* encode(buffer, const vpImage<vpRGBa>&): height, width, 4, then the bitmap.
encodeImageRGBa(buffer, object) ==
  LET hdr == encodeInt(encodeInt(encodeInt(buffer, object.height), object.width), 4)
      sentSize == object.height * object.width * 4
  IN  hdr \o SubSeq(object.bitmap, 1, sentSize)

\* The endianness byte of encode(vpImage<uint16_t>): '<' on a little-endian
\* host, '>' on a big-endian one.
EndianMark(bigEndianHost) == IF bigEndianHost THEN 62 ELSE 60

\* Mutant of encodeImageU16: a channel count of 1 is written after the width.
encodeImageU16_Channels(buffer, object, bigEndianHost) ==
  LET hdr == encodeInt(encodeInt(encodeInt(buffer, object.height), object.width), 1)
      sentSize == object.height * object.width * 2
  IN  Append(hdr, EndianMark(bigEndianHost)) \o SubSeq(object.bitmap, 1, sentSize)

\* encode(buffer, const vpImage<uint16_t>&): height, width, the endianness
\* byte, then the bitmap as it lies in memory.
encodeImageU16(buffer, object, bigEndianHost) ==
  LET hdr == encodeInt(encodeInt(buffer, object.height), object.width)
      sentSize == object.height * object.width * 2
  IN  Append(hdr, EndianMark(bigEndianHost)) \o SubSeq(object.bitmap, 1, sentSize)

(***************************************************************************)
(* TypeCodec: decode.  index counts from 0 as in the code.  A read at or   *)
(* beyond buffer.size() is undefined behaviour: the byte read is junk,     *)
(* chosen by the caller, and oob records that it happened.  buffer[index]  *)
(* with index = buffer.size() is undefined too, even when no byte is read  *)
(* through it (a string or a bitmap of length 0 that ends the buffer): ub  *)
(* records either.                                                         *)
(***************************************************************************)
ByteAt(buffer, i, junk) == IF i >= 0 /\ i < Len(buffer) THEN buffer[i + 1] ELSE junk

\* In the decoders an intermediate result (the index, a decoded size) is
\* computed once and then used: CHOOSE r \in {F(x) : x \in {e}} : TRUE is
\* F(e) with e evaluated a single time.

\* decode(buffer, index, int&) on a host of either byte order.
decodeIntOn(bigEndianHost, buffer, index, junk) ==
  LET At(i) ==
        LET b == [k \in 1..4 |-> ByteAt(buffer, i + k - 1, junk)]
        IN  [value |-> U32ToInt(HostToNet(bigEndianHost, ValueOf(bigEndianHost, b))),
             index |-> SatAdd(i, SIZEOF_U32),
             oob   |-> i > Len(buffer) - SIZEOF_U32,
             ub    |-> i > Len(buffer) - SIZEOF_U32]
  IN  CHOOSE r \in {At(i) : i \in {index}} : TRUE

\* decode(buffer, index, int&)
decodeInt(buffer, index, junk) == decodeIntOn(BigEndianHost, buffer, index, junk)

\* decode(buffer, index, float&): the 32 bits of the float, as an int of the
\* same bits, through ntohl.
decodeFloat(buffer, index, junk) == decodeIntOn(BigEndianHost, buffer, index, junk)

\* Mutant of decodeString: index += size is missing.
decodeString_NoAdvance(buffer, index, junk) ==
  LET Chars(n) ==
        LET size == n.value
            inb  == IF size < 0 THEN 0
                    ELSE Min(size, Len(buffer) - Min(n.index, Len(buffer)))
        IN  [value  |-> SubSeq(buffer, n.index + 1, n.index + inb),
             index  |-> n.index,
             oob    |-> n.oob \/ (size > 0 /\ size > Len(buffer) - n.index),
             ub     |-> n.oob \/ (size >= 0 /\ n.index >= Len(buffer))
                              \/ (size > 0 /\ size > Len(buffer) - n.index),
             thrown |-> size < 0]
  IN  CHOOSE r \in {Chars(n) : n \in {decodeInt(buffer, index, junk)}} : TRUE

\* decode(buffer, index, std::string&).  A negative size makes resize throw
\* std::length_error (thrown); a size beyond the buffer reads out of bounds.
decodeString(buffer, index, junk) ==
  LET Chars(n) ==
        LET size == n.value
            inb  == IF size < 0 THEN 0
                    ELSE Min(size, Len(buffer) - Min(n.index, Len(buffer)))
        IN  [value  |-> SubSeq(buffer, n.index + 1, n.index + inb),
             index  |-> IF size < 0 THEN n.index ELSE SatAdd(n.index, size),
             oob    |-> n.oob \/ (size > 0 /\ size > Len(buffer) - n.index),
             ub     |-> n.oob \/ (size >= 0 /\ n.index >= Len(buffer))
                              \/ (size > 0 /\ size > Len(buffer) - n.index),
             thrown |-> size < 0]
  IN  CHOOSE r \in {Chars(n) : n \in {decodeInt(buffer, index, junk)}} : TRUE

\* Images of the model have at most MaxDim rows and MaxDim columns.
MaxDim == 2

\* Mutant of decodeImageRGBa: with 3 channels the fourth channel of a pixel
\* is read from the buffer, after its three bytes.
decodeImageRGBa_AlphaRead(buffer, index, junk) ==
  LET Pixels(h, w, c) ==
        LET height == h.value
            width  == w.value
            npix   == IF height \in 1..MaxDim /\ width \in 1..MaxDim
                      THEN height * width ELSE 0
            start  == c.index
            rgb  == [p \in 1..npix |->
                       [k \in 1..4 |-> ByteAt(buffer, start + 3 * (p - 1) + k - 1, junk)]]
            rgba == [p \in 1..npix |->
                       [k \in 1..4 |-> ByteAt(buffer, start + 4 * (p - 1) + k - 1, junk)]]
            used == IF c.value = 3 THEN 3 * npix ELSE IF c.value = 4 THEN 4 * npix ELSE 0
        IN  [value |-> [height |-> height, width |-> width,
                        pixels |-> IF c.value = 3 THEN rgb
                                   ELSE IF c.value = 4 THEN rgba ELSE << >>,
                        set    |-> c.value \in {3, 4}],
             index |-> SatAdd(start, used),
             oob   |-> c.oob \/ (used > 0 /\ used >= Len(buffer) - start),
             ub    |-> c.oob \/ (used > 0 /\ used >= Len(buffer) - start)
                             \/ (c.value = 4 /\ start >= Len(buffer))]
      Channels(h, w) == CHOOSE r \in {Pixels(h, w, c) : c \in {decodeInt(buffer, w.index, junk)}} : TRUE
      Width(h) == CHOOSE r \in {Channels(h, w) : w \in {decodeInt(buffer, h.index, junk)}} : TRUE
  IN  CHOOSE r \in {Width(h) : h \in {decodeInt(buffer, index, junk)}} : TRUE

\* decode(buffer, index, vpImage<vpRGBa>&): height, width, channels, then
\* the pixels, 3 or 4 bytes each.
decodeImageRGBa(buffer, index, junk) ==
  LET Pixels(h, w, c) ==
        LET height == h.value
            width  == w.value
            npix   == IF height \in 1..MaxDim /\ width \in 1..MaxDim
                      THEN height * width ELSE 0
            start  == c.index
            rgb  == [p \in 1..npix |->
                       <<ByteAt(buffer, start + 3 * (p - 1), junk),
                         ByteAt(buffer, start + 3 * (p - 1) + 1, junk),
                         ByteAt(buffer, start + 3 * (p - 1) + 2, junk), 255>>]
            rgba == [p \in 1..npix |->
                       [k \in 1..4 |-> ByteAt(buffer, start + 4 * (p - 1) + k - 1, junk)]]
            used == IF c.value = 3 THEN 3 * npix ELSE IF c.value = 4 THEN 4 * npix ELSE 0
        IN  [value |-> [height |-> height, width |-> width,
                        pixels |-> IF c.value = 3 THEN rgb
                                   ELSE IF c.value = 4 THEN rgba ELSE << >>,
                        set    |-> c.value \in {3, 4}],
             index |-> SatAdd(start, used),
             oob   |-> c.oob \/ (used > 0 /\ used > Len(buffer) - start),
             ub    |-> c.oob \/ (used > 0 /\ used > Len(buffer) - start)
                             \/ (c.value = 4 /\ start >= Len(buffer))]
      Channels(h, w) == CHOOSE r \in {Pixels(h, w, c) : c \in {decodeInt(buffer, w.index, junk)}} : TRUE
      Width(h) == CHOOSE r \in {Channels(h, w) : w \in {decodeInt(buffer, h.index, junk)}} : TRUE
  IN  CHOOSE r \in {Width(h) : h \in {decodeInt(buffer, index, junk)}} : TRUE

(***************************************************************************)
(* TypeCodec: the overloads over the types.  A type is its template name   *)
(* as a sequence: <<"int">>, <<"string">>, <<"image">> (vpImage<vpRGBa>),  *)
(* <<"vector", "int">>, <<"vector", "vector", "int">>, ...  A value of any *)
(* type is a record of one shape: the integer, the characters or the       *)
(* bitmap, the elements, the height and the width.                         *)
(***************************************************************************)
IntVal(i) == [int |-> i, bytes |-> << >>, items |-> << >>, height |-> 0, width |-> 0]
StrVal(chars) == [int |-> 0, bytes |-> chars, items |-> << >>, height |-> 0, width |-> 0]
VecVal(elements) == [int |-> 0, bytes |-> << >>, items |-> elements, height |-> 0, width |-> 0]
ImgVal(h, w, bitmap) == [int |-> 0, bytes |-> bitmap, items |-> << >>, height |-> h, width |-> w]

\* The bytes of a sequence of pixels, one after the other.
RECURSIVE Flatten(_)
Flatten(pixels) == IF pixels = << >> THEN << >> ELSE Head(pixels) \o Flatten(Tail(pixels))

RECURSIVE encode(_, _, _), encodeEach(_, _, _)
\* for (const T& value : object) encode(buffer, value)
encodeEach(buffer, T, elements) ==
  IF elements = << >> THEN buffer
  ELSE encodeEach(encode(buffer, T, Head(elements)), T, Tail(elements))

\* Mutant of encodeVector: the count is written after the elements.
encodeVector_CountLast(buffer, T, object) ==
  encodeInt(encodeEach(buffer, T, object), Len(object))

\* encode(buffer, const std::vector<T>&): the count, then each element.
encodeVector(buffer, T, object) ==
  encodeEach(encodeInt(buffer, Len(object)), T, object)

\* encode(buffer, const T& object), resolved on the type of object.
encode(buffer, T, object) ==
  CASE Head(T) = "int" -> encodeInt(buffer, object.int)
    [] Head(T) = "float" -> encodeFloat(buffer, object.int)
    [] Head(T) = "string" -> encodeString(buffer, object.bytes)
    [] Head(T) = "image" ->
         encodeImageRGBa(buffer, [height |-> object.height, width |-> object.width,
                                  bitmap |-> object.bytes])
    [] Head(T) = "vector" -> encodeVector(buffer, Tail(T), object.items)

\* Mutant of encodeRest: the arguments after the first are processed
\* before it.
RECURSIVE encodeRest_RestFirst(_, _, _)
encodeRest_RestFirst(buffer, Ts, objects) ==
  IF objects = << >> THEN buffer
  ELSE encode(encodeRest_RestFirst(buffer, Tail(Ts), Tail(objects)), Head(Ts), Head(objects))

\* encode(buffer, const T& object, const Rest& ...rest): encode(buffer,
\* object), then encode(buffer, rest...), down to encode(buffer).
RECURSIVE encodeRest(_, _, _)
encodeRest(buffer, Ts, objects) ==
  IF objects = << >> THEN buffer
  ELSE encodeRest(encode(buffer, Head(Ts), Head(objects)), Tail(Ts), Tail(objects))

RECURSIVE decode(_, _, _, _), decodeEach(_, _, _, _, _)
\* for (int i = 0; i < size; ++i) { T t; decode(buffer, index, t); value[i] = t; }
\* with n turns left and acc the elements, the index and the faults so far.
decodeEach(buffer, T, n, junk, acc) ==
  IF n <= 0 \/ acc.thrown THEN acc
  ELSE CHOOSE r \in
         {decodeEach(buffer, T, n - 1, junk,
                     [value |-> Append(acc.value, e.value), index |-> e.index,
                      oob |-> acc.oob \/ e.oob, ub |-> acc.ub \/ e.ub, thrown |-> e.thrown]) :
            e \in {decode(buffer, acc.index, T, junk)}} : TRUE

\* decode(buffer, index, std::vector<T>&): the count, value.resize(size),
\* which throws std::length_error on a negative count, then each element.
\* An element takes 4 bytes or more: a count beyond the bytes left makes the
\* loop read beyond the buffer, and only the turns up to there are computed.
decodeVector(buffer, index, T, junk) ==
  LET Elements(n) ==
        LET size == n.value
            turns == Min(size, (Len(buffer) - Min(n.index, Len(buffer))) \div SIZEOF_U32 + 1)
            r == decodeEach(buffer, T, turns, junk,
                            [value |-> << >>, index |-> n.index, oob |-> n.oob \/ size > turns,
                             ub |-> n.ub \/ size > turns, thrown |-> FALSE])
        IN  IF size < 0
            THEN [value |-> VecVal(<< >>), index |-> n.index, oob |-> n.oob, ub |-> n.ub,
                  thrown |-> TRUE]
            ELSE [r EXCEPT !.value = VecVal(r.value)]
  IN  CHOOSE r \in {Elements(n) : n \in {decodeInt(buffer, index, junk)}} : TRUE

\* decode(buffer, index, T& t), resolved on the type of t.
decode(buffer, index, T, junk) ==
  CASE Head(T) = "int" ->
         LET r == decodeInt(buffer, index, junk)
         IN  [value |-> IntVal(r.value), index |-> r.index, oob |-> r.oob, ub |-> r.ub,
              thrown |-> FALSE]
    [] Head(T) = "float" ->
         LET r == decodeFloat(buffer, index, junk)
         IN  [value |-> IntVal(r.value), index |-> r.index, oob |-> r.oob, ub |-> r.ub,
              thrown |-> FALSE]
    [] Head(T) = "string" ->
         LET r == decodeString(buffer, index, junk)
         IN  [r EXCEPT !.value = StrVal(r.value)]
    [] Head(T) = "image" ->
         LET r == decodeImageRGBa(buffer, index, junk)
         IN  [value |-> ImgVal(r.value.height, r.value.width, Flatten(r.value.pixels)),
              index |-> r.index, oob |-> r.oob, ub |-> r.ub, thrown |-> FALSE]
    [] Head(T) = "vector" -> decodeVector(buffer, index, Tail(T), junk)

(***************************************************************************)
(* Rigid transforms.  A double is the float nearest to it, as its 32 bits, *)
(* and a mark telling that the double has digits below those of the float; *)
(* a vpHomogeneousMatrix is its 4 rows of 4 doubles.                       *)
(***************************************************************************)
\* The number of entries of a vpHomogeneousMatrix.
MatrixEntries == 16

Double(single, below) == [single |-> single, below |-> below]

\* (float)d
FloatCast(d) == d.single

\* The double a float converts to.
DoubleOf(f) == Double(f, 0)

\* object.data: the entries of the matrix, row after row.
MatrixData(object) == [i \in 1..MatrixEntries |-> object[((i - 1) \div 4) + 1][((i - 1) % 4) + 1]]

\* The matrix whose data is the given array.
MatrixOf(array) == [r \in 1..4 |-> [c \in 1..4 |-> array[4 * (r - 1) + c]]]

\* encode(buffer, const vpHomogeneousMatrix&): the 16 entries cast to
\* float, encoded as a std::vector<float>.
encodeMatrix(buffer, object) ==
  LET array == [i \in 1..MatrixEntries |-> IntVal(FloatCast(MatrixData(object)[i]))]
  IN  encodeVector(buffer, <<"float">>, array)

\* Mutant of decodeMatrix: value[i % 4][i / 4] = values[i].
decodeMatrix_Transposed(buffer, index, junk) ==
  LET Entries(values) ==
        LET n == Len(values.value.items)
            array == [i \in 1..MatrixEntries |->
                        IF i <= n THEN DoubleOf(values.value.items[i].int)
                        ELSE DoubleOf(junk)]
        IN  [value |-> [r \in 1..4 |-> [c \in 1..4 |-> MatrixOf(array)[c][r]]],
             index |-> values.index,
             oob |-> values.oob \/ n < MatrixEntries, ub |-> values.ub \/ n < MatrixEntries,
             thrown |-> values.thrown, asserted |-> n # MatrixEntries]
  IN  CHOOSE r \in {Entries(values) :
                      values \in {decodeVector(buffer, index, <<"float">>, junk)}} : TRUE

\* decode(buffer, index, vpHomogeneousMatrix&): a std::vector<float> is
\* decoded, assert(values.size() == 16), value.data[i] = values[i] for the
\* 16 entries; with fewer than 16 values and the assertion compiled out,
\* values[i] is read beyond the vector.
decodeMatrix(buffer, index, junk) ==
  LET Entries(values) ==
        LET n == Len(values.value.items)
            array == [i \in 1..MatrixEntries |->
                        IF i <= n THEN DoubleOf(values.value.items[i].int)
                        ELSE DoubleOf(junk)]
        IN  [value |-> MatrixOf(array),
             index |-> values.index,
             oob |-> values.oob \/ n < MatrixEntries, ub |-> values.ub \/ n < MatrixEntries,
             thrown |-> values.thrown, asserted |-> n # MatrixEntries]
  IN  CHOOSE r \in {Entries(values) :
                      values \in {decodeVector(buffer, index, <<"float">>, junk)}} : TRUE

(***************************************************************************)
(* ProtocolDispatcher: the command table.                                  *)
(***************************************************************************)
KnownMessages == {"ERR", "OK", "GET_POSE", "RET_POSE", "SET_INTR", "GET_VIZ",
                  "RET_VIZ", "GET_SCORE", "RET_SCORE", "SET_SO3_GRID_SIZE"}

ServerMessage == KnownMessages \cup {"UNKNOWN"}

\* Mutant of codeMap: RET_SCORE is given the code of RET_POSE.
codeMap_Duplicate ==
  [m \in KnownMessages |->
     CASE m = "ERR"               -> <<82, 69, 82, 82>>
       [] m = "OK"                -> <<79, 75, 79, 75>>
       [] m = "GET_POSE"          -> <<71, 69, 84, 80>>
       [] m = "RET_POSE"          -> <<82, 69, 84, 80>>
       [] m = "SET_INTR"          -> <<73, 78, 84, 82>>
       [] m = "GET_VIZ"           -> <<71, 69, 84, 86>>
       [] m = "RET_VIZ"           -> <<82, 69, 84, 86>>
       [] m = "GET_SCORE"         -> <<71, 83, 67, 79>>
       [] m = "RET_SCORE"         -> <<82, 69, 84, 80>>
       [] m = "SET_SO3_GRID_SIZE" -> <<83, 79, 51, 71>>]

\* vpMegaPose::codeMap, each code as its four ASCII bytes.
codeMap ==
  [m \in KnownMessages |->
     CASE m = "ERR"               -> <<82, 69, 82, 82>>   \* RERR
       [] m = "OK"                -> <<79, 75, 79, 75>>   \* OKOK
       [] m = "GET_POSE"          -> <<71, 69, 84, 80>>   \* GETP
       [] m = "RET_POSE"          -> <<82, 69, 84, 80>>   \* RETP
       [] m = "SET_INTR"          -> <<73, 78, 84, 82>>   \* INTR
       [] m = "GET_VIZ"           -> <<71, 69, 84, 86>>   \* GETV
       [] m = "RET_VIZ"           -> <<82, 69, 84, 86>>   \* RETV
       [] m = "GET_SCORE"         -> <<71, 83, 67, 79>>   \* GSCO
       [] m = "RET_SCORE"         -> <<82, 83, 67, 79>>   \* RSCO
       [] m = "SET_SO3_GRID_SIZE" -> <<83, 79, 51, 71>>]  \* SO3G

\* vpMegaPose::messageToString: codeMap.at(messageType).
messageToString(messageType) == codeMap[messageType]

\* Mutant of stringToMessage: a code that is not in the table is taken for
\* an entry of the table instead of UNKNOWN.
stringToMessage_NoUnknown(s) ==
  IF \E m \in KnownMessages : codeMap[m] = s
  THEN CHOOSE m \in KnownMessages : codeMap[m] = s
  ELSE "ERR"

\* vpMegaPose::stringToMessage: the first entry whose code is s, else UNKNOWN.
stringToMessage(s) ==
  IF \E m \in KnownMessages : codeMap[m] = s
  THEN CHOOSE m \in KnownMessages : codeMap[m] = s
  ELSE "UNKNOWN"

(***************************************************************************)
(* MessageFramer.                                                          *)
(***************************************************************************)
\* The header makeMessage builds from data.size() and the command: arr.
makeHeader(messageType, dataSize) ==
  htonl(TruncU32(dataSize)) \o SubSeq(messageToString(messageType), 1, MEGAPOSE_CODE_SIZE)

\* vpMegaPose::makeMessage: data.insert(data.begin(), header).
makeMessage(messageType, data) == makeHeader(messageType, SizeOf(data)) \o data


(***************************************************************************)
(* The session: its callers, its mutex, its socket and the peer.           *)
(***************************************************************************)
Threads == 1..NThreads
NoThread == 0
\* nullptr for the optional lists of estimatePoses, which are modelled by
\* their sizes.
Null == 0 - 1

VARIABLES
  pc,          \* pc[t]: where thread t is in its operation
  req,         \* req[t]: the operation t called and its arguments
  data,        \* data[t]: the request buffer of t (payload, then frame)
  sent,        \* sent[t]: bytes of data[t] the socket has taken so far
  rd,          \* rd[t]: readMessage's locals (size, code, data, read_total)
  exc,         \* exc[t]: the exception the operation of t ended with
  ret,         \* ret[t]: the value the operation of t returned
  mutex,       \* owner of vpMegaPose::mutex, or NoThread
  toServer,    \* bytes written to the socket that the peer has not consumed
  toClient,    \* bytes the peer wrote that no read() has returned yet
  peerClosed,  \* the peer has closed the connection
  alive,       \* FALSE once the process was aborted
  outOwner,    \* history: for each byte ever written to the socket, its writer
  inOwner,     \* history: for each byte of toClient, the thread whose request it answers
  got,         \* history: got[t], the owners of the reply bytes t has read
  served,      \* history: the request frames the peer consumed, in order
  doneOrder,   \* history: the threads whose operation returned, in order
  doneBefore,  \* history: doneBefore[t], the threads that had returned when t took the mutex
  io,          \* history: io[t], the send() and read() calls of t, the bytes it wrote
               \* and what its last read() returned
  ub,          \* history: undefined behaviour has happened
  mm,          \* the frame harness: one call of makeMessage and its result
  wire,        \* the bytes the peer has written that have not reached the socket yet,
               \* and the frame they began with
  cdc,         \* the codec harness: one pass of encode and decode over a buffer
  life         \* the client object: its construction, its descriptors, its destruction

vars == <<pc, req, data, sent, rd, exc, ret, mutex, toServer, toClient, peerClosed,
          alive, outOwner, inOwner, got, served, doneOrder, doneBefore, io, ub, mm, wire,
          cdc, life>>

sessionVars == <<pc, req, data, sent, rd, exc, ret, mutex, toServer, toClient,
                 peerClosed, alive, outOwner, inOwner, got, served, doneOrder,
                 doneBefore, io, ub>>

NoExc == [code |-> "none", text |-> "", arg |-> << >>]
NoRd == [size |-> [hi |-> 0, lo |-> 0], code |-> << >>, data |-> << >>, read_total |-> 0]
NoReq == [op |-> "none", tag |-> 0, labels |-> 0, detections |-> Null,
          initial_cTos |-> Null, depth |-> FALSE, depth_to_m |-> 0, cTos |-> 0]
NoRet == [json |-> << >>, image |-> << >>]
NoMm == [called |-> FALSE]
NoWire == [pending |-> << >>, command |-> "none", payload |-> << >>, tail |-> << >>]
NoCdc == [phase |-> "none"]

\* The descriptors of a process started from a shell: stdin, stdout, stderr.
StdDescriptors == {0, 1, 2}

\* socket(): the lowest descriptor that is not open.
LowestFree(open) == CHOOSE d \in 0..(Cardinality(open)) : d \notin open /\ \A e \in 0..(d - 1) : e \in open

\* The client object after a successful construction in a process whose
\* descriptors are the standard ones.
Connected ==
  [state |-> "constructed", host |-> <<127, 0, 0, 1>>, peer |-> "listening",
   open |-> StdDescriptors \cup {LowestFree(StdDescriptors)},
   serverSocket |-> LowestFree(StdDescriptors), fd |-> 0, closed |-> << >>,
   exc |-> NoExc]

(***************************************************************************)
(* The arguments of the operations.  Lists are modelled by their sizes,    *)
(* the depth-to-meters factor by its sign.                                 *)
(***************************************************************************)
OptCount == {Null} \cup (0..MaxLabels)

EstimateRequests ==
  {[NoReq EXCEPT !.op = "estimatePoses", !.labels = l, !.detections = d,
                 !.initial_cTos = i, !.depth = z, !.depth_to_m = s] :
     l \in 0..MaxLabels, d \in OptCount, i \in OptCount, z \in BOOLEAN, s \in {-1, 0, 1}}

ScoreRequests ==
  {[NoReq EXCEPT !.op = "scorePoses", !.labels = l, !.cTos = c] :
     l \in 0..MaxLabels, c \in 0..MaxLabels}

PlainRequests ==
  {[NoReq EXCEPT !.op = o] : o \in {"setIntrinsics", "viewObjects", "setCoarseNumSamples"}}

AllRequests == EstimateRequests \cup ScoreRequests \cup PlainRequests

\* The arguments the pre-flight checks of the operations accept.
ValidRequest(r) ==
  CASE r.op = "estimatePoses" ->
         /\ ~(r.detections = Null /\ r.initial_cTos = Null)
         /\ (r.detections # Null => r.detections = r.labels)
         /\ (r.initial_cTos # Null => r.initial_cTos = r.labels)
         /\ (r.depth => r.depth_to_m > 0)
    [] r.op = "scorePoses" -> r.cTos = r.labels
    [] OTHER -> TRUE

\* The calls made by concurrent threads: every operation, and for the two
\* checked ones a call that passes and a call that fails the checks.
ConcRequests ==
  PlainRequests
  \cup {r \in EstimateRequests :
          /\ r.labels = MaxLabels /\ r.initial_cTos = Null /\ r.depth /\ r.depth_to_m = 1
          /\ r.detections \in {Null, MaxLabels}}
  \cup {r \in ScoreRequests : r.labels = MaxLabels /\ r.cTos \in {0, MaxLabels}}

ValidConcRequests == {r \in ConcRequests : ValidRequest(r)}

\* The images passed to the operations: a 1x1 colour image, a 1x1 depth map.
TheImage == [height |-> 1, width |-> 1, bitmap |-> <<10, 20, 30, 255>>]
TheDepth == [height |-> 1, width |-> 1, bitmap |-> <<7, 1>>]

\* json::dump() of the parameters: an opaque text.  It carries the tag of
\* the call and, for estimatePoses, use_depth.
Dump(r) ==
  IF r.op = "estimatePoses" THEN <<r.tag, IF r.depth THEN 1 ELSE 0>> ELSE <<r.tag>>


(***************************************************************************)
(* The initial state: a connected session, no caller inside.               *)
(***************************************************************************)
\* The session and its surroundings before any caller has entered.
SessionInit ==
  /\ pc = [t \in Threads |-> "idle"]
  /\ req = [t \in Threads |-> NoReq]
  /\ data = [t \in Threads |-> << >>]
  /\ sent = [t \in Threads |-> 0]
  /\ rd = [t \in Threads |-> NoRd]
  /\ exc = [t \in Threads |-> NoExc]
  /\ ret = [t \in Threads |-> NoRet]
  /\ mutex = NoThread
  /\ toServer = << >>
  /\ toClient = << >>
  /\ peerClosed = FALSE
  /\ alive = TRUE
  /\ outOwner = << >>
  /\ inOwner = << >>
  /\ got = [t \in Threads |-> {}]
  /\ served = << >>
  /\ doneOrder = << >>
  /\ doneBefore = [t \in Threads |-> {}]
  /\ io = [t \in Threads |-> [sends |-> 0, reads |-> 0, bytes |-> 0, last |-> 0]]
  /\ ub = FALSE
  /\ mm = NoMm
  /\ wire = NoWire
  /\ cdc = NoCdc

\* The client has been constructed: serverSocket is the descriptor socket()
\* returned, fd is what connect() returned.
Init == SessionInit /\ life = Connected

(***************************************************************************)
(* The scope of the lock_guard: entering it, and leaving it by return or   *)
(* by exception.                                                           *)
(***************************************************************************)
\* A thread calls an operation of the session.
Call(t, r) ==
  /\ alive /\ pc[t] = "idle" /\ life.state = "constructed"
  /\ pc' = [pc EXCEPT ![t] = "lock"]
  /\ req' = [req EXCEPT ![t] = [r EXCEPT !.tag = t]]
  /\ UNCHANGED <<data, sent, rd, exc, ret, mutex, toServer, toClient, peerClosed,
                 alive, outOwner, inOwner, got, served, doneOrder, doneBefore, io, ub, mm, wire, cdc, life>>

\* Mutant of MutexFree: the operations take no lock (the guard never blocks).
MutexFree_NoLock(t) == TRUE

\* std::mutex::lock as the lock_guard's constructor calls it: blocks while
\* the mutex is owned.
MutexFree(t) == mutex = NoThread

\* const std::lock_guard<std::mutex> lock(mutex): first statement of each operation.
Lock(t) ==
  /\ alive /\ pc[t] = "lock"
  /\ MutexFree(t)
  /\ mutex' = t
  /\ pc' = [pc EXCEPT ![t] = "build"]
  /\ doneBefore' = [doneBefore EXCEPT ![t] = {u \in Threads : pc[u] = "done"}]
  /\ UNCHANGED <<req, data, sent, rd, exc, ret, toServer, toClient, peerClosed,
                 alive, outOwner, inOwner, got, served, doneOrder, io, ub, mm, wire, cdc, life>>

\* Mutant of ReleaseGuard: the mutex is never unlocked.
ReleaseGuard_Never(t) == mutex' = mutex

\* The lock_guard's destructor, run when the operation's scope is left.
ReleaseGuard(t) == mutex' = NoThread

\* Mutant of Throw: mutex.lock() and mutex.unlock() by hand, the unlock
\* skipped when an exception leaves the operation.
Throw_NoUnlock(t, code, text, arg) ==
  /\ pc' = [pc EXCEPT ![t] = "failed"]
  /\ exc' = [exc EXCEPT ![t] = [code |-> code, text |-> text, arg |-> arg]]
  /\ mutex' = mutex

\* throw vpException(code, text [+ arg]) out of an operation.
Throw(t, code, text, arg) ==
  /\ pc' = [pc EXCEPT ![t] = "failed"]
  /\ exc' = [exc EXCEPT ![t] = [code |-> code, text |-> text, arg |-> arg]]
  /\ ReleaseGuard(t)

\* return result from an operation.
Return(t, result) ==
  /\ pc' = [pc EXCEPT ![t] = "done"]
  /\ ret' = [ret EXCEPT ![t] = result]
  /\ doneOrder' = Append(doneOrder, t)
  /\ ReleaseGuard(t)

(***************************************************************************)
(* The operations up to makeMessage: checks and payload.                   *)
(***************************************************************************)
\* Mutant of estimatePosesCheck: the test for two null lists is missing.
estimatePosesCheck_NoNullTest(r) ==
  IF r.detections # Null /\ r.detections # r.labels
  THEN "Same number of bounding boxes and labels must be provided."
  ELSE IF r.initial_cTos # Null /\ r.initial_cTos # r.labels
  THEN "An initial estimate should be given for each detected object in the image"
  ELSE IF r.depth /\ r.depth_to_m <= 0
  THEN "When using depth, the scale factor should be specified."
  ELSE ""

\* Mutant of estimatePosesCheck: the count of initial_cTos is not compared.
estimatePosesCheck_NoPoseCount(r) ==
  IF r.detections = Null /\ r.initial_cTos = Null
  THEN "You must either provide detections (bounding boxes) or initial pose estimates for Megapose to work."
  ELSE IF r.detections # Null /\ r.detections # r.labels
  THEN "Same number of bounding boxes and labels must be provided."
  ELSE IF r.depth /\ r.depth_to_m <= 0
  THEN "When using depth, the scale factor should be specified."
  ELSE ""

\* Mutant of estimatePosesCheck: depth_to_m < 0.0 instead of <= 0.0.
estimatePosesCheck_ZeroScale(r) ==
  IF r.detections = Null /\ r.initial_cTos = Null
  THEN "You must either provide detections (bounding boxes) or initial pose estimates for Megapose to work."
  ELSE IF r.detections # Null /\ r.detections # r.labels
  THEN "Same number of bounding boxes and labels must be provided."
  ELSE IF r.initial_cTos # Null /\ r.initial_cTos # r.labels
  THEN "An initial estimate should be given for each detected object in the image"
  ELSE IF r.depth /\ r.depth_to_m < 0
  THEN "When using depth, the scale factor should be specified."
  ELSE ""

\* The exception text of the first check of estimatePoses that fails, "" if none.
estimatePosesCheck(r) ==
  IF r.detections = Null /\ r.initial_cTos = Null
  THEN "You must either provide detections (bounding boxes) or initial pose estimates for Megapose to work."
  ELSE IF r.detections # Null /\ r.detections # r.labels
  THEN "Same number of bounding boxes and labels must be provided."
  ELSE IF r.initial_cTos # Null /\ r.initial_cTos # r.labels
  THEN "An initial estimate should be given for each detected object in the image"
  ELSE IF r.depth /\ r.depth_to_m <= 0
  THEN "When using depth, the scale factor should be specified."
  ELSE ""

\* Mutant of estimatePosesPayload: the depth image is encoded before the
\* parameters.
estimatePosesPayload_DepthFirst(r) ==
  LET d1 == encodeImageRGBa(<< >>, TheImage)
      d2 == IF r.depth THEN encodeImageU16(d1, TheDepth, BigEndianHost) ELSE d1
  IN  encodeString(d2, Dump(r))

\* The payload estimatePoses builds: image, parameters, depth if given.
estimatePosesPayload(r) ==
  LET d1 == encodeImageRGBa(<< >>, TheImage)
      d2 == encodeString(d1, Dump(r))
  IN  IF r.depth THEN encodeImageU16(d2, TheDepth, BigEndianHost) ELSE d2

\* Mutant of scorePosesCheck: the check comes after the send, too late to
\* stop it.
scorePosesCheck_Missing(r) == ""

\* The exception text of the check of scorePoses, "" if it passes.
scorePosesCheck(r) ==
  IF r.cTos # r.labels
  THEN "The number of poses should be the same as the number of object labels"
  ELSE ""

\* The payload scorePoses builds: image, parameters.
scorePosesPayload(r) == encodeString(encodeImageRGBa(<< >>, TheImage), Dump(r))

\* The payload of setIntrinsics, viewObjects, setCoarseNumSamples: parameters.
plainPayload(r) == encodeString(<< >>, Dump(r))

\* An operation from the lock to its send: checks, payload, makeMessage.
Build(t, op, check, request, payload) ==
  /\ alive /\ pc[t] = "build" /\ req[t].op = op
  /\ IF check # ""
     THEN /\ Throw(t, "badValue", check, << >>)
          /\ UNCHANGED data
     ELSE /\ data' = [data EXCEPT ![t] = makeMessage(request, payload)]
          /\ pc' = [pc EXCEPT ![t] = "send"]
          /\ UNCHANGED <<exc, mutex>>
  /\ UNCHANGED <<req, sent, rd, ret, toServer, toClient, peerClosed, alive,
                 outOwner, inOwner, got, served, doneOrder, doneBefore, io, ub, mm, wire, cdc, life>>

estimatePoses(t) ==
  Build(t, "estimatePoses", estimatePosesCheck(req[t]), "GET_POSE", estimatePosesPayload(req[t]))

scorePoses(t) ==
  Build(t, "scorePoses", scorePosesCheck(req[t]), "GET_SCORE", scorePosesPayload(req[t]))

setIntrinsics(t) ==
  Build(t, "setIntrinsics", "", "SET_INTR", plainPayload(req[t]))

viewObjects(t) ==
  Build(t, "viewObjects", "", "GET_VIZ", plainPayload(req[t]))

setCoarseNumSamples(t) ==
  Build(t, "setCoarseNumSamples", "", "SET_SO3_GRID_SIZE", plainPayload(req[t]))

\* The reply command each operation compares the received one with.
ExpectedReply(op) ==
  CASE op = "estimatePoses" -> "RET_POSE"
    [] op = "scorePoses" -> "RET_SCORE"
    [] op = "viewObjects" -> "RET_VIZ"
    [] OTHER -> "OK"

(***************************************************************************)
(* send(serverSocket, &data[0], data.size(), 0): the socket takes the      *)
(* bytes of the frame in one or more pieces while the caller is blocked:   *)
(* each time all that is left, or the SendRoom bytes its buffer has room   *)
(* for.  Once the peer has closed, the bytes may still be taken (and are   *)
(* lost), or send fails: it returns -1, which the operation does not look  *)
(* at, or raises SIGPIPE, which ends the process.                          *)
(***************************************************************************)
SendOutcomes == IF peerClosed THEN {"taken", "EPIPE", "SIGPIPE"} ELSE {"taken"}

Send(t) ==
  /\ alive /\ pc[t] = "send"
  /\ \E outcome \in SendOutcomes,
        k \in {Min(SendRoom, Len(data[t]) - sent[t]), Len(data[t]) - sent[t]} :
       \E n \in {IF outcome = "taken" THEN k ELSE 0} :
         /\ toServer' = toServer \o SubSeq(data[t], sent[t] + 1, sent[t] + n)
         /\ outOwner' = outOwner \o [i \in 1..n |-> t]
         /\ sent' = [sent EXCEPT ![t] = @ + n]
         /\ io' = [io EXCEPT ![t].sends = 1, ![t].bytes = @ + n]
         /\ alive' = (outcome # "SIGPIPE")
         /\ pc' = [pc EXCEPT ![t] =
                     IF outcome = "SIGPIPE" \/ (outcome = "taken" /\ sent[t] + n < Len(data[t]))
                     THEN "send" ELSE "readSize"]
  /\ UNCHANGED <<req, data, rd, exc, ret, mutex, toClient, peerClosed,
                 inOwner, got, served, doneOrder, doneBefore, ub, mm, wire, cdc, life>>

\* send() is interrupted by a signal while it waits for room: it returns
\* the number of bytes taken so far (or -1 if none), fewer than the frame
\* has; the operation does not look at it and goes on to readMessage.
SendInterrupted(t) ==
  /\ alive /\ pc[t] = "send" /\ sent[t] < Len(data[t])
  /\ pc' = [pc EXCEPT ![t] = "readSize"]
  /\ io' = [io EXCEPT ![t].sends = 1]
  /\ UNCHANGED <<req, data, sent, rd, exc, ret, mutex, toServer, toClient, peerClosed,
                 alive, outOwner, inOwner, got, served, doneOrder, doneBefore, ub, mm, wire, cdc, life>>

(***************************************************************************)
(* vpMegaPose::readMessage.  read(fd, buf, n) blocks until a byte is there *)
(* or the peer has closed; it returns what is there, at most n bytes, and  *)
(* 0 at end of stream.                                                     *)
(***************************************************************************)
Readable == Len(toClient) > 0 \/ (peerClosed /\ wire.pending = << >>)

\* The bytes one read() of at most n bytes returns.
readBytes(n) == SubSeq(toClient, 1, Min(n, Len(toClient)))

\* The effect of a read() that returned k bytes on the stream and its history.
Consume(t, k) ==
  /\ toClient' = SubSeq(toClient, k + 1, Len(toClient))
  /\ inOwner' = SubSeq(inOwner, k + 1, Len(inOwner))
  /\ got' = [got EXCEPT ![t] = @ \cup {inOwner[i] : i \in 1..k}]
  /\ io' = [io EXCEPT ![t].reads = @ + 1, ![t].last = k]

\* readCount = read(serverSocket, &size, sizeof(uint32_t)); size = ntohl(size)
readSize(t) ==
  /\ alive /\ pc[t] = "readSize" /\ Readable
  /\ LET b == readBytes(SIZEOF_U32)
     IN  /\ Consume(t, Len(b))
         /\ IF Len(b) # SIZEOF_U32
            THEN /\ Throw(t, "ioError", "Error while reading data from socket", << >>)
                 /\ UNCHANGED rd
            ELSE /\ rd' = [rd EXCEPT ![t] = [NoRd EXCEPT !.size = ntohl(b)]]
                 /\ pc' = [pc EXCEPT ![t] = "readCode"]
                 /\ UNCHANGED <<exc, mutex>>
  /\ UNCHANGED <<req, data, sent, ret, toServer, peerClosed, alive, outOwner,
                 served, doneOrder, doneBefore, ub, mm, wire, cdc, life>>

\* readCount = read(serverSocket, code, MEGAPOSE_CODE_SIZE); then data.resize(size)
\* and the first test of the loop.
readCode(t) ==
  /\ alive /\ pc[t] = "readCode" /\ Readable
  /\ LET b == readBytes(MEGAPOSE_CODE_SIZE)
     IN  /\ Consume(t, Len(b))
         /\ IF Len(b) # MEGAPOSE_CODE_SIZE
            THEN /\ Throw(t, "ioError", "Error while reading data from socket", << >>)
                 /\ UNCHANGED rd
            ELSE /\ rd' = [rd EXCEPT ![t].code = b]
                 /\ pc' = [pc EXCEPT ![t] =
                             IF LessU32(0, rd[t].size) THEN "readData" ELSE "reply"]
                 /\ UNCHANGED <<exc, mutex>>
  /\ UNCHANGED <<req, data, sent, ret, toServer, peerClosed, alive, outOwner,
                 served, doneOrder, doneBefore, ub, mm, wire, cdc, life>>

\* Mutant of readData: read(serverSocket, &data[0], read_size), every piece
\* stored at the start of data.
readData_Overwrite(t) ==
  /\ alive /\ pc[t] = "readData" /\ Readable
  /\ LET b     == readBytes(READ_SIZE)
         total == rd[t].read_total + Len(b)
     IN  /\ Consume(t, Len(b))
         /\ IF Len(b) <= 0
            THEN /\ Throw(t, "ioError", "Error while reading data from socket", << >>)
                 /\ UNCHANGED <<rd, alive, ub>>
            ELSE /\ rd' = [rd EXCEPT ![t].data = b \o SubSeq(@, Len(b) + 1, Len(@)),
                                     ![t].read_total = total]
                 /\ UNCHANGED <<alive, ub>>
                 /\ pc' = [pc EXCEPT ![t] =
                             IF LessU32(total, rd[t].size) THEN "readData" ELSE "reply"]
                 /\ UNCHANGED <<exc, mutex>>
  /\ UNCHANGED <<req, data, sent, ret, toServer, peerClosed, outOwner,
                 served, doneOrder, doneBefore, mm, wire, cdc, life>>

\* One turn of the loop: actually_read = read(serverSocket, &data[read_total],
\* read_size), then the test read_total < size.  The read asks for read_size
\* bytes whatever is left of data: when more bytes are there than data has
\* room for, they are written past its end, which is undefined behaviour:
\* the process goes on with the bytes lost, or is aborted.
readData(t) ==
  /\ alive /\ pc[t] = "readData" /\ Readable
  /\ LET b     == readBytes(READ_SIZE)
         room  == U32ToNat(rd[t].size) - rd[t].read_total
         over  == Len(b) > room
         total == rd[t].read_total + Len(b)
     IN  /\ Consume(t, Len(b))
         /\ IF Len(b) <= 0
            THEN /\ Throw(t, "ioError", "Error while reading data from socket", << >>)
                 /\ UNCHANGED <<rd, alive, ub>>
            ELSE /\ rd' = [rd EXCEPT ![t].data = @ \o SubSeq(b, 1, Min(Len(b), room)),
                                     ![t].read_total = total]
                 /\ ub' = (ub \/ over)
                 /\ \E goesOn \in (IF over THEN BOOLEAN ELSE {TRUE}) : alive' = goesOn
                 /\ pc' = [pc EXCEPT ![t] =
                             IF LessU32(total, rd[t].size) THEN "readData" ELSE "reply"]
                 /\ UNCHANGED <<exc, mutex>>
  /\ UNCHANGED <<req, data, sent, ret, toServer, peerClosed, outOwner,
                 served, doneOrder, doneBefore, mm, wire, cdc, life>>

(***************************************************************************)
(* After readMessage: the comparison with the expected command, then       *)
(* handleWrongReturnMessage or the decoding of the result.                 *)
(***************************************************************************)
\* The bytes an out-of-bounds read of a decode may find.
JunkBytes == {0, 255}

\* The value an operation returns, decoded from data_result.
decodeResult(op, data_result, junk) ==
  CASE op \in {"estimatePoses", "scorePoses"} ->
         LET s == decodeString(data_result, 0, junk)
         IN  [value |-> [json |-> s.value, image |-> << >>], oob |-> s.oob, ub |-> s.ub,
              thrown |-> s.thrown]
    [] op = "viewObjects" ->
         LET i == decodeImageRGBa(data_result, 0, junk)
         IN  [value |-> [json |-> << >>, image |-> i.value], oob |-> i.oob, ub |-> i.ub,
              thrown |-> FALSE]
    [] OTHER -> [value |-> NoRet, oob |-> FALSE, ub |-> FALSE, thrown |-> FALSE]

\* A decode has run; if it indexed its buffer at or beyond the end (undef)
\* the behaviour is undefined: the process goes on with the bytes it found,
\* or is aborted.
Decoded(undef) ==
  /\ ub' = (ub \/ undef)
  /\ \E goesOn \in (IF undef THEN BOOLEAN ELSE {TRUE}) : alive' = goesOn

\* Mutant of handleWrongReturnMessage: the test code != ERR is missing,
\* every wrong reply is reported as a server error.
handleWrongReturnMessage_NoErrTest(t, code, buffer, junk) ==
  \E message \in {decodeString(buffer, 0, junk)} :
    /\ IF message.thrown
       THEN Throw(t, "length_error", "", << >>)
       ELSE Throw(t, "badValue", "Server error : ", message.value)
    /\ Decoded(message.ub)

\* Mutant of handleWrongReturnMessage: the decoded message is not appended.
handleWrongReturnMessage_NoMessage(t, code, buffer, junk) ==
  IF code # "ERR"
  THEN /\ Throw(t, "fatalError", "Megapose: got an unexpected message from the server", << >>)
       /\ Decoded(FALSE)
  ELSE \E message \in {decodeString(buffer, 0, junk)} :
         /\ IF message.thrown
            THEN Throw(t, "length_error", "", << >>)
            ELSE Throw(t, "badValue", "Server error : ", << >>)
         /\ Decoded(message.ub)

\* handleWrongReturnMessage(code, buffer)
handleWrongReturnMessage(t, code, buffer, junk) ==
  IF code # "ERR"
  THEN /\ Throw(t, "fatalError", "Megapose: got an unexpected message from the server", << >>)
       /\ Decoded(FALSE)
  ELSE \E message \in {decodeString(buffer, 0, junk)} :
         /\ IF message.thrown
            THEN Throw(t, "length_error", "", << >>)
            ELSE Throw(t, "badValue", "Server error : ", message.value)
         /\ Decoded(message.ub)

\* std::tie(code, data_result) = readMessage(); if (code != EXPECTED)
\* handleWrongReturnMessage(code, data_result); decode and return.
Reply(t) ==
  /\ alive /\ pc[t] = "reply"
  /\ \E code \in {stringToMessage(rd[t].code)}, data_result \in {rd[t].data},
        junk \in JunkBytes :
       IF code # ExpectedReply(req[t].op)
       THEN /\ handleWrongReturnMessage(t, code, data_result, junk)
            /\ UNCHANGED <<ret, doneOrder>>
       ELSE \E r \in {decodeResult(req[t].op, data_result, junk)} :
              /\ IF r.thrown
                 THEN /\ Throw(t, "length_error", "", << >>)
                      /\ UNCHANGED <<ret, doneOrder>>
                 ELSE /\ Return(t, r.value)
                      /\ UNCHANGED exc
              /\ Decoded(r.ub)
  /\ UNCHANGED <<req, data, sent, rd, toServer, toClient, peerClosed,
                 outOwner, inOwner, got, served, doneBefore, io, mm, wire, cdc, life>>


(***************************************************************************)
(* The peer: the MegaPose server at the other end of the socket.  It takes *)
(* one whole request frame at a time and writes one reply frame for it.    *)
(***************************************************************************)
HEADER_SIZE == SIZEOF_U32 + MEGAPOSE_CODE_SIZE

\* A whole frame lies at the head of the bytes the peer has received.
PeerHasFrame ==
  /\ Len(toServer) >= HEADER_SIZE
  /\ ~LessU32(Len(toServer) - HEADER_SIZE, ntohl(SubSeq(toServer, 1, SIZEOF_U32)))

\* The tag carried by the parameter text of a request payload (0 if none):
\* the first byte of the text, which follows its 4-byte length; in GET_POSE
\* and GET_SCORE the text follows the colour image (12 bytes, then 4 per pixel).
PeerTag(cmd, payload) ==
  LET skip == IF cmd \in {"GET_POSE", "GET_SCORE"}
              THEN 3 * SIZEOF_U32 + 4 * ByteAt(payload, 3, 0) * ByteAt(payload, 7, 0)
              ELSE 0
  IN  ByteAt(payload, skip + SIZEOF_U32, 0)

\* The reply command of the protocol for each request command.
PeerReplyTo(cmd) ==
  CASE cmd = "GET_POSE" -> "RET_POSE"
    [] cmd = "GET_SCORE" -> "RET_SCORE"
    [] cmd = "GET_VIZ" -> "RET_VIZ"
    [] cmd \in {"SET_INTR", "SET_SO3_GRID_SIZE"} -> "OK"
    [] OTHER -> "ERR"

\* "bad input"
BadInput == <<98, 97, 100, 32, 105, 110, 112, 117, 116>>

\* The payload of a reply that echoes the tag of its request.
PeerEcho(cmd, tag) ==
  CASE cmd = "GET_VIZ" ->
         encodeImageRGBa(<< >>, [height |-> 1, width |-> 1, bitmap |-> <<tag, 0, 0, 255>>])
    [] PeerReplyTo(cmd) = "ERR" -> encodeString(<< >>, BadInput)
    [] OTHER -> encodeString(<< >>, <<tag>>)

ReplyKinds == {"echo", "error", "unexpected", "unknown"}

\* The reply frame of each kind for a request.
PeerAnswer(kind, cmd, tag) ==
  CASE kind = "echo" -> makeMessage(PeerReplyTo(cmd), PeerEcho(cmd, tag))
    [] kind = "error" -> makeMessage("ERR", encodeString(<< >>, BadInput))
    [] kind = "unexpected" ->
         makeMessage(IF PeerReplyTo(cmd) = "OK" THEN "RET_POSE" ELSE "OK", PeerEcho(cmd, tag))
    [] OTHER -> htonl(TruncU32(SizeOf(PeerEcho(cmd, tag)))) \o <<88, 88, 88, 88>>
                  \o PeerEcho(cmd, tag)

\* The peer consumes the frame at the head of its input and answers it.
PeerReply(kind) ==
  /\ ~peerClosed /\ PeerHasFrame
  /\ \E size \in {U32ToNat(ntohl(SubSeq(toServer, 1, SIZEOF_U32)))},
        cmd \in {stringToMessage(SubSeq(toServer, SIZEOF_U32 + 1, HEADER_SIZE))},
        owner \in {outOwner[Len(outOwner) - Len(toServer) + 1]} :
       \E payload \in {SubSeq(toServer, HEADER_SIZE + 1, HEADER_SIZE + size)} :
         \E tag \in {PeerTag(cmd, payload)} :
           \E answer \in {PeerAnswer(kind, cmd, tag)} :
             /\ toServer' = SubSeq(toServer, HEADER_SIZE + size + 1, Len(toServer))
             /\ served' = Append(served, [owner |-> owner, cmd |-> cmd])
             /\ toClient' = toClient \o answer
             /\ inOwner' = inOwner \o [i \in 1..Len(answer) |-> owner]
  /\ UNCHANGED <<pc, req, data, sent, rd, exc, ret, mutex, peerClosed, alive,
                 outOwner, got, doneOrder, doneBefore, io, ub, mm, wire, cdc, life>>

\* The peer closes the connection.
PeerClose ==
  /\ ~peerClosed
  /\ peerClosed' = TRUE
  /\ UNCHANGED <<pc, req, data, sent, rd, exc, ret, mutex, toServer, toClient, alive,
                 outOwner, inOwner, got, served, doneOrder, doneBefore, io, ub, mm, wire, cdc, life>>

(***************************************************************************)
(* The peer as a byte stream: it answers a request with any frame, which   *)
(* makeMessage builds, possibly followed by more bytes, and the stream     *)
(* hands the bytes to the socket in pieces.                                *)
(***************************************************************************)
\* A payload longer than one read() of readMessage's loop asks for.
LargePayload == [i \in 1..(READ_SIZE + 1) |-> i % 256]

\* Payloads of the frames read back: empty, one byte, a length-prefixed
\* text, and a large one.
FramePayloads == {<< >>, <<7>>, encodeString(<< >>, <<7>>), LargePayload}

\* Payloads of the frames that arrive in pieces.
StreamPayloads == {<< >>, <<7>>, encodeString(<< >>, <<7>>)}

\* What may follow a frame on the stream: nothing, or another frame.
Tails == {<< >>, makeMessage("OK", << >>)}

\* The peer consumes the request frame at the head of its input and writes
\* the frame makeMessage(m, p), then tail.
PeerWrite(m, p, tail) ==
  /\ ~peerClosed /\ PeerHasFrame /\ wire.command = "none"
  /\ \E size \in {U32ToNat(ntohl(SubSeq(toServer, 1, SIZEOF_U32)))},
        cmd \in {stringToMessage(SubSeq(toServer, SIZEOF_U32 + 1, HEADER_SIZE))},
        owner \in {outOwner[Len(outOwner) - Len(toServer) + 1]} :
       /\ toServer' = SubSeq(toServer, HEADER_SIZE + size + 1, Len(toServer))
       /\ served' = Append(served, [owner |-> owner, cmd |-> cmd])
  /\ wire' = [pending |-> makeMessage(m, p) \o tail, command |-> m, payload |-> p,
              tail |-> tail]
  /\ UNCHANGED <<pc, req, data, sent, rd, exc, ret, mutex, toClient, peerClosed, alive,
                 outOwner, inOwner, got, doneOrder, doneBefore, io, ub, mm, cdc, life>>

\* The next k bytes the peer wrote reach the socket.
Deliver(k) ==
  /\ k >= 1 /\ k <= Len(wire.pending)
  /\ toClient' = toClient \o SubSeq(wire.pending, 1, k)
  /\ inOwner' = inOwner \o [i \in 1..k |-> served[Len(served)].owner]
  /\ wire' = [wire EXCEPT !.pending = SubSeq(wire.pending, k + 1, Len(wire.pending))]
  /\ UNCHANGED <<pc, req, data, sent, rd, exc, ret, mutex, toServer, peerClosed, alive,
                 outOwner, got, served, doneOrder, doneBefore, io, ub, mm, cdc, life>>

\* The pieces in which a frame arrives when its header arrives whole: the
\* header alone first, READ_SIZE bytes, or all that is left.
WholePieces ==
  {READ_SIZE, Len(wire.pending)}
  \cup (IF Len(wire.pending) = HEADER_SIZE + Len(wire.payload) THEN {HEADER_SIZE} ELSE {})

\* The pieces in which the bytes of a stream may arrive.
Pieces == {1, 2, SIZEOF_U32, HEADER_SIZE, Len(wire.pending)}

(***************************************************************************)
(* The client object: vpMegaPose::vpMegaPose and vpMegaPose::~vpMegaPose.  *)
(* A host string is the sequence of its dot-separated fields, a field that *)
(* is not a number being Null.  A descriptor is a small natural; open is   *)
(* the set of the descriptors the process has open.                        *)
(***************************************************************************)
\* inet_pton(AF_INET, host.c_str(), ...): 1 for four fields in 0..255, else 0.
inet_pton(host) ==
  IF Len(host) = 4 /\ \A i \in DOMAIN host : host[i] \in 0..255 THEN 1 ELSE 0

\* The host strings given to the constructor: "127.0.0.1", "10.0.0.256",
\* "10.0.0", "1.2.3.4.5", "localhost", "".
Hosts == {<<127, 0, 0, 1>>, <<10, 0, 0, 256>>, <<10, 0, 0>>, <<1, 2, 3, 4, 5>>, <<Null>>, << >>}

\* The process before the client is constructed: stdin is open, or has
\* been closed.
Unconstructed ==
  {[state |-> "none", host |-> << >>, peer |-> "none", open |-> o,
    serverSocket |-> Null, fd |-> Null, closed |-> << >>, exc |-> NoExc] :
     o \in {StdDescriptors, StdDescriptors \ {0}}}

LifeInit == SessionInit /\ life \in Unconstructed

\* The request of the setIntrinsics the constructor calls.
CtorRequest == [NoReq EXCEPT !.op = "setIntrinsics", !.tag = 1]

\* throw vpException(code, text [+ arg]) out of the constructor.
CtorThrow(l, code, text, arg) ==
  life' = [l EXCEPT !.state = "failed", !.exc = [code |-> code, text |-> text, arg |-> arg]]

\* Mutant of Construct: the results of inet_pton and of connect are not
\* tested.
Construct_Unchecked(host, socketMade, peer) ==
  /\ alive /\ life.state = "none"
  /\ \E s \in {IF socketMade THEN LowestFree(life.open) ELSE Null} :
       \E l \in {[life EXCEPT !.host = host, !.peer = peer, !.serverSocket = s,
                              !.open = IF s = Null THEN @ ELSE @ \cup {s}]} :
         IF s < 0
         THEN /\ CtorThrow(l, "ioError", "Could not create socket to connect to MegaPose server", << >>)
              /\ UNCHANGED <<pc, req>>
         ELSE /\ life' = [l EXCEPT !.fd = IF peer # "listening" THEN Null ELSE 0,
                                   !.state = "setIntrinsics"]
              /\ pc' = [pc EXCEPT ![1] = "lock"]
              /\ req' = [req EXCEPT ![1] = CtorRequest]
  /\ UNCHANGED <<data, sent, rd, exc, ret, mutex, toServer, toClient, peerClosed,
                 alive, outOwner, inOwner, got, served, doneOrder, doneBefore, io, ub, mm,
                 wire, cdc>>

\* Mutant of Construct: the constructor locks the mutex before it calls
\* setIntrinsics.
Construct_Locked(host, socketMade, peer) ==
  /\ alive /\ life.state = "none"
  /\ \E s \in {IF socketMade THEN LowestFree(life.open) ELSE Null} :
       \E l \in {[life EXCEPT !.host = host, !.peer = peer, !.serverSocket = s,
                              !.open = IF s = Null THEN @ ELSE @ \cup {s}]} :
         IF s < 0
         THEN /\ CtorThrow(l, "ioError", "Could not create socket to connect to MegaPose server", << >>)
              /\ UNCHANGED <<pc, req, mutex>>
         ELSE IF inet_pton(host) <= 0
         THEN /\ CtorThrow(l, "badValue", "Invalid ip address: ", host)
              /\ UNCHANGED <<pc, req, mutex>>
         ELSE IF peer # "listening"
         THEN /\ CtorThrow([l EXCEPT !.fd = Null], "ioError", "Could not connect to server at ", host)
              /\ UNCHANGED <<pc, req, mutex>>
         ELSE /\ life' = [l EXCEPT !.fd = 0, !.state = "setIntrinsics"]
              /\ pc' = [pc EXCEPT ![1] = "lock"]
              /\ req' = [req EXCEPT ![1] = CtorRequest]
              /\ mutex' = 1
  /\ UNCHANGED <<data, sent, rd, exc, ret, toServer, toClient, peerClosed,
                 alive, outOwner, inOwner, got, served, doneOrder, doneBefore, io, ub, mm,
                 wire, cdc>>

\* vpMegaPose::vpMegaPose up to its call of setIntrinsics: socket(), which
\* gives the lowest descriptor that is free or fails, inet_pton() on the
\* host string, connect(), which returns 0 or, the peer not listening, -1.
Construct(host, socketMade, peer) ==
  /\ alive /\ life.state = "none"
  /\ \E s \in {IF socketMade THEN LowestFree(life.open) ELSE Null} :
       \E l \in {[life EXCEPT !.host = host, !.peer = peer, !.serverSocket = s,
                              !.open = IF s = Null THEN @ ELSE @ \cup {s}]} :
         IF s < 0
         THEN /\ CtorThrow(l, "ioError", "Could not create socket to connect to MegaPose server", << >>)
              /\ UNCHANGED <<pc, req>>
         ELSE IF inet_pton(host) <= 0
         THEN /\ CtorThrow(l, "badValue", "Invalid ip address: ", host)
              /\ UNCHANGED <<pc, req>>
         ELSE IF peer # "listening"
         THEN /\ CtorThrow([l EXCEPT !.fd = Null], "ioError", "Could not connect to server at ", host)
              /\ UNCHANGED <<pc, req>>
         ELSE /\ life' = [l EXCEPT !.fd = 0, !.state = "setIntrinsics"]
              /\ pc' = [pc EXCEPT ![1] = "lock"]
              /\ req' = [req EXCEPT ![1] = CtorRequest]
  /\ UNCHANGED <<data, sent, rd, exc, ret, mutex, toServer, toClient, peerClosed,
                 alive, outOwner, inOwner, got, served, doneOrder, doneBefore, io, ub, mm,
                 wire, cdc>>

\* Mutant of ConstructorExit: the exception of setIntrinsics is caught and
\* the constructor returns.
ConstructorExit_Caught ==
  /\ alive /\ life.state = "setIntrinsics" /\ pc[1] \in {"done", "failed"}
  /\ life' = [life EXCEPT !.state = "constructed"]
  /\ UNCHANGED <<sessionVars, mm, wire, cdc>>

\* The setIntrinsics the constructor called has ended: the constructor
\* returns, or the exception of setIntrinsics leaves it.
ConstructorExit ==
  /\ alive /\ life.state = "setIntrinsics" /\ pc[1] \in {"done", "failed"}
  /\ life' = IF pc[1] = "done" THEN [life EXCEPT !.state = "constructed"]
             ELSE [life EXCEPT !.state = "failed", !.exc = exc[1]]
  /\ UNCHANGED <<sessionVars, mm, wire, cdc>>

\* close(d) by the process.
Close(open, d) == open \ {d}

\* vpMegaPose::~vpMegaPose: close(fd), no operation being in flight.
Destroy ==
  /\ alive /\ life.state = "constructed"
  /\ \A t \in Threads : pc[t] \in {"idle", "done", "failed"}
  /\ life' = [life EXCEPT !.state = "destroyed", !.open = Close(@, life.fd),
                          !.closed = Append(@, life.fd)]
  /\ UNCHANGED <<sessionVars, mm, wire, cdc>>

(***************************************************************************)
(* Specifications.                                                         *)
(***************************************************************************)
\* A step of thread t inside an operation it has called.
ThreadStep(t) ==
  \/ Lock(t)
  \/ estimatePoses(t)
  \/ scorePoses(t)
  \/ setIntrinsics(t)
  \/ viewObjects(t)
  \/ setCoarseNumSamples(t)
  \/ Send(t)
  \/ readSize(t)
  \/ readCode(t)
  \/ readData(t)
  \/ Reply(t)

\* Concurrent callers on one session; the peer may answer as the protocol
\* says, answer with an error or another command, or close the connection.
Next ==
  \/ \E t \in Threads, r \in ConcRequests : Call(t, r)
  \/ \E t \in Threads : ThreadStep(t)
  \/ \E kind \in ReplyKinds : PeerReply(kind)
  \/ PeerClose

Spec == Init /\ [][Next]_vars

\* One caller, every combination of arguments of the operations.
SeqNext ==
  \/ \E r \in AllRequests : Call(1, r)
  \/ ThreadStep(1)
  \/ SendInterrupted(1)
  \/ \E kind \in ReplyKinds : PeerReply(kind)
  \/ PeerClose

SeqSpec == Init /\ [][SeqNext]_vars

\* One caller; the peer answers with the frame of any command and payload,
\* whose header arrives whole.
RoundTripNext ==
  \/ \E r \in ValidConcRequests : Call(1, r)
  \/ ThreadStep(1)
  \/ \E m \in KnownMessages, p \in FramePayloads : PeerWrite(m, p, << >>)
  \/ \E k \in WholePieces : Deliver(k)

RoundTripSpec == Init /\ [][RoundTripNext]_vars

\* One caller; the peer answers with a frame, possibly followed by another
\* one, the stream splits the bytes in any way, and the peer may close.
StreamNext ==
  \/ \E r \in ValidConcRequests : Call(1, r)
  \/ ThreadStep(1)
  \/ \E m \in KnownMessages, p \in StreamPayloads, tail \in Tails : PeerWrite(m, p, tail)
  \/ \E k \in Pieces : Deliver(k)
  \/ PeerClose

StreamSpec == Init /\ [][StreamNext]_vars

\* Concurrent callers; the peer answers the first request with one frame,
\* whose bytes reach the socket in any pieces, some of them possibly never,
\* and may close.
StallNext ==
  \/ \E t \in Threads, r \in ValidConcRequests : Call(t, r)
  \/ \E t \in Threads : ThreadStep(t)
  \/ \E m \in {"OK", "RET_VIZ", "ERR"}, p \in StreamPayloads : PeerWrite(m, p, << >>)
  \/ \E k \in Pieces : Deliver(k)
  \/ PeerClose

StallSpec == Init /\ [][StallNext]_vars

\* The life of one client: its construction with any host string, towards a
\* peer that listens or not, the setIntrinsics of the constructor, the calls
\* of other threads on the constructed client, its destruction.
LifeNext ==
  \/ \E host \in Hosts, socketMade \in BOOLEAN, peer \in {"listening", "refusing"} :
       Construct(host, socketMade, peer)
  \/ \E t \in Threads : ThreadStep(t)
  \/ ConstructorExit
  \/ \E t \in Threads \ {1}, r \in ConcRequests : Call(t, r)
  \/ \E kind \in ReplyKinds : PeerReply(kind)
  \/ PeerClose
  \/ Destroy

LifeSpec == LifeInit /\ [][LifeNext]_vars

\* Concurrent callers whose arguments pass the checks, and a peer that
\* answers every request frame with the reply of the protocol, echoing the
\* tag of the request.
EchoNext ==
  \/ \E t \in Threads, r \in ValidConcRequests : Call(t, r)
  \/ \E t \in Threads : ThreadStep(t)
  \/ PeerReply("echo")

EchoSpec == Init /\ [][EchoNext]_vars

\* The same, with a scheduler that lets every thread and the peer run and
\* grants the mutex fairly.
FairSpec ==
  /\ Init /\ [][EchoNext]_vars
  /\ \A t \in Threads : SF_vars(Lock(t)) /\ WF_vars(ThreadStep(t))
  /\ WF_vars(PeerReply("echo"))

(***************************************************************************)
(* The frame harness: makeMessage applied to a command and a payload.  A   *)
(* payload is given with its bytes, or, when it is too large for that, by  *)
(* its size alone (then only the header is computed).                      *)
(***************************************************************************)
PayloadBytes == {0, 1, 255}

Payloads == UNION {[1..n -> PayloadBytes] : n \in 0..MaxPayload}

\* Sizes of payloads whose bytes are not enumerated: 2^16, 2^31, 2^32 - 1,
\* 2^32, 2^32 + 5.
LargeSizes == {[hi |-> 1, lo |-> 0], [hi |-> 32768, lo |-> 0], [hi |-> Limb - 1, lo |-> Limb - 1],
               [hi |-> Limb, lo |-> 0], [hi |-> Limb, lo |-> 5]}

MakeMessageCall(messageType, payload) ==
  /\ ~mm.called
  /\ mm' = [called |-> TRUE, messageType |-> messageType, payload |-> payload,
            size |-> SizeOf(payload), enumerated |-> TRUE,
            frame |-> makeMessage(messageType, payload)]
  /\ UNCHANGED <<sessionVars, wire, cdc, life>>

MakeMessageLarge(messageType, size) ==
  /\ ~mm.called
  /\ mm' = [called |-> TRUE, messageType |-> messageType, payload |-> << >>,
            size |-> size, enumerated |-> FALSE,
            frame |-> makeHeader(messageType, size)]
  /\ UNCHANGED <<sessionVars, wire, cdc, life>>

FrameNext ==
  \/ \E m \in KnownMessages, p \in Payloads : MakeMessageCall(m, p)
  \/ \E m \in KnownMessages, n \in LargeSizes : MakeMessageLarge(m, n)

FrameSpec == Init /\ [][FrameNext]_vars

(***************************************************************************)
(* The codec harness: values are appended to a buffer by one call of       *)
(* encode with several arguments and, for comparison, by one call per      *)
(* value; then they are decoded from the buffer, one after the other, with *)
(* one index.                                                              *)
(***************************************************************************)
\* Largest number of values given to one call of encode or decode.
MaxArgs == 2

CodecInts == {0, 1, 0 - 1, 258, 16909060, IntMax, 0 - IntMax - 1}

CodecStrings == {<< >>, <<65>>, <<0, 255, 66>>}

\* The bitmap of an image of h rows and w columns, 4 bytes per pixel.
Bitmap(h, w) == [i \in 1..(4 * h * w) |-> (37 * i) % 256]

CodecImages == {ImgVal(h, w, Bitmap(h, w)) : h \in 0..MaxDim, w \in 0..MaxDim}

IntVectors == {<< >>, <<IntVal(5)>>, <<IntVal(0 - 1), IntVal(258)>>}

StringVectors == {<< >>, <<StrVal(<< >>)>>,
                  <<StrVal(<<65>>), StrVal(<< >>), StrVal(<<66, 67>>)>>,
                  <<StrVal(<<66, 67>>), StrVal(<<65>>)>>}

NestedVectors == {<< >>, <<VecVal(<< >>)>>,
                  <<VecVal(<<IntVal(1), IntVal(2)>>), VecVal(<< >>), VecVal(<<IntVal(3)>>)>>}

\* The values encoded, each with its type.
TypedValues ==
  {[T |-> <<"int">>, v |-> IntVal(i)] : i \in CodecInts}
  \cup {[T |-> <<"string">>, v |-> StrVal(c)] : c \in CodecStrings}
  \cup {[T |-> <<"image">>, v |-> img] : img \in CodecImages}
  \cup {[T |-> <<"vector", "int">>, v |-> VecVal(e)] : e \in IntVectors}
  \cup {[T |-> <<"vector", "string">>, v |-> VecVal(e)] : e \in StringVectors}
  \cup {[T |-> <<"vector", "vector", "int">>, v |-> VecVal(e)] : e \in NestedVectors}

\* The values given together to one call with several arguments.
ArgValues ==
  {a \in TypedValues :
     \/ a.T = <<"int">> /\ a.v.int \in {0 - 1, 258}
     \/ a.T = <<"string">> /\ Len(a.v.bytes) <= 1
     \/ a.T = <<"image">> /\ a.v.height = 1 /\ a.v.width = 1
     \/ a.T = <<"vector", "string">> /\ Len(a.v.items) = 3}

CodecCalls ==
  {<<a>> : a \in TypedValues} \cup UNION {[1..n -> ArgValues] : n \in 2..MaxArgs}

\* What the buffer holds before the values are appended.
Prefixes == {<< >>, <<9>>, <<9, 8, 7, 6, 5>>}

\* std::vector<uint8_t> buffer; encode(buffer, args...)
EncodeCall(prefix, args) ==
  /\ alive /\ cdc.phase = "none"
  /\ cdc' = [phase |-> "encoding", args |-> args, start |-> Len(prefix),
             buffer |-> encodeRest(prefix, [k \in DOMAIN args |-> args[k].T],
                                   [k \in DOMAIN args |-> args[k].v]),
             single |-> prefix, ends |-> << >>, index |-> Len(prefix), out |-> << >>]
  /\ UNCHANGED <<sessionVars, mm, wire, life>>

\* encode(single, arg) for the next argument, alone.
EncodeOne ==
  /\ alive /\ cdc.phase = "encoding"
  /\ \E k \in {Len(cdc.ends) + 1} :
       \E b \in {encode(cdc.single, cdc.args[k].T, cdc.args[k].v)} :
         cdc' = [cdc EXCEPT !.single = b, !.ends = Append(@, Len(b)),
                            !.phase = IF k = Len(cdc.args) THEN "decoding" ELSE "encoding"]
  /\ UNCHANGED <<sessionVars, mm, wire, life>>

\* decode(buffer, index, object, rest...): decode(buffer, index, object) for
\* the next object, then the rest with the same index.  A decode that
\* indexes the buffer at or beyond its end is undefined: it goes on, or the
\* process is aborted.
decodeNext ==
  /\ alive /\ cdc.phase = "decoding"
  /\ \E k \in {Len(cdc.out) + 1}, junk \in JunkBytes :
       \E r \in {decode(cdc.buffer, cdc.index, cdc.args[k].T, junk)} :
         \E goesOn \in (IF r.ub THEN BOOLEAN ELSE {TRUE}) :
           /\ ub' = (ub \/ r.ub)
           /\ alive' = goesOn
           /\ cdc' = IF ~goesOn THEN cdc
                     ELSE IF r.thrown THEN [cdc EXCEPT !.phase = "thrown"]
                     ELSE [cdc EXCEPT !.index = r.index,
                                      !.out = Append(@, [value |-> r.value, from |-> cdc.index,
                                                         to |-> r.index, oob |-> r.oob]),
                                      !.phase = IF k = Len(cdc.args) THEN "decoded"
                                                ELSE "decoding"]
  /\ UNCHANGED <<pc, req, data, sent, rd, exc, ret, mutex, toServer, toClient, peerClosed,
                 outOwner, inOwner, got, served, doneOrder, doneBefore, io, mm, wire, life>>

\* Integers over the 32-bit range: the ends of the range, the values around
\* each byte boundary, both signs.
IntRange ==
  CodecInts \cup {0 - 2, 127, 128, 255, 256, 0 - 255, 0 - 256, 65535, 65536, 0 - 65536,
                  16777215, 16777216, 0 - 16777216, 0 - 16909060, IntMax - 1, 0 - IntMax}

\* encode(buffer, object) and decode(buffer, index, value) of an int on a
\* host of either byte order.
encodeIntCall(bigEndianHost, prefix, object) ==
  /\ alive /\ cdc.phase = "none"
  /\ \E b \in {encodeIntOn(bigEndianHost, prefix, object)}, junk \in JunkBytes :
       cdc' = [phase |-> "int", host |-> bigEndianHost, object |-> object,
               start |-> Len(prefix), buffer |-> b,
               decoded |-> decodeIntOn(bigEndianHost, b, Len(prefix), junk)]
  /\ UNCHANGED <<sessionVars, mm, wire, life>>

\* The channel counts of the images received.
ImageChannels == {1, 3, 4, 5}

\* The pixel bytes of a received image; none of them is 255.
RawPixels(n) == [i \in 1..n |-> (53 * i + 1) % 256]

\* What follows a received image in its buffer.
ImageTails == {<< >>, <<1, 2, 3, 4>>}

\* The bytes of an image as the peer sends it: height, width, channels,
\* then the pixels row by row.
PeerImage(h, w, channels, raw) ==
  encodeInt(encodeInt(encodeInt(<< >>, h), w), channels) \o raw

\* decode(buffer, index, image) of an image the peer has sent.  A decode
\* that indexes the buffer at or beyond its end is undefined: it goes on,
\* or the process is aborted.
decodeImageCall(prefix, h, w, channels, tail) ==
  /\ alive /\ cdc.phase = "none"
  /\ \E raw \in {RawPixels(channels * h * w)}, junk \in JunkBytes :
       \E b \in {prefix \o PeerImage(h, w, channels, raw) \o tail} :
         \E r \in {decodeImageRGBa(b, Len(prefix), junk)} :
           \E goesOn \in (IF r.ub THEN BOOLEAN ELSE {TRUE}) :
             /\ ub' = (ub \/ r.ub)
             /\ alive' = goesOn
             /\ cdc' = [phase |-> IF goesOn THEN "image" ELSE "aborted", start |-> Len(prefix),
                        height |-> h, width |-> w, channels |-> channels, raw |-> raw,
                        buffer |-> b, decoded |-> r]
  /\ UNCHANGED <<pc, req, data, sent, rd, exc, ret, mutex, toServer, toClient, peerClosed,
                 outOwner, inOwner, got, served, doneOrder, doneBefore, io, mm, wire, life>>

\* The pixels of a depth map of n pixels: 16-bit values whose two bytes differ.
DepthPixels(n) == [i \in 1..n |-> 258 * i + 1]

\* (uint8_t*)object.bitmap: the pixels of a vpImage<uint16_t> as they lie in
\* the memory of a host, two bytes each.
MemoryU16(bigEndianHost, pixels) ==
  [i \in 1..(2 * Len(pixels)) |->
     IF (i % 2 = 1) = bigEndianHost
     THEN pixels[(i + 1) \div 2] \div 256
     ELSE pixels[(i + 1) \div 2] % 256]

\* encode(buffer, depth) of a vpImage<uint16_t> on a host of either byte order.
encodeDepthCall(bigEndianHost, prefix, h, w) ==
  /\ alive /\ cdc.phase = "none"
  /\ \E pixels \in {DepthPixels(h * w)} :
       cdc' = [phase |-> "depth", host |-> bigEndianHost, start |-> Len(prefix),
               height |-> h, width |-> w, pixels |-> pixels,
               buffer |-> encodeImageU16(prefix, [height |-> h, width |-> w,
                                                  bitmap |-> MemoryU16(bigEndianHost, pixels)],
                                         bigEndianHost)]
  /\ UNCHANGED <<sessionVars, mm, wire, life>>

\* The rigid transforms encoded: the identity, a matrix of 16 different
\* floats, one of 16 different doubles that are not floats, one of
\* negative entries.  1065353216 is the 32 bits of 1.0f, -1082130432 those
\* of -1.0f.
Matrices ==
  {[r \in 1..4 |-> [c \in 1..4 |-> Double(IF r = c THEN 1065353216 ELSE 0, 0)]],
   [r \in 1..4 |-> [c \in 1..4 |-> Double(1065353216 + 4 * (r - 1) + c, 0)]],
   [r \in 1..4 |-> [c \in 1..4 |-> Double(1065353216 + 256 * (4 * (r - 1) + c), 1)]],
   [r \in 1..4 |-> [c \in 1..4 |-> Double(65536 * r + c - 1082130432, (r + c) % 2)]]}

\* encode(buffer, object) and decode(buffer, index, value) of a
\* vpHomogeneousMatrix.
encodeMatrixCall(prefix, object) ==
  /\ alive /\ cdc.phase = "none"
  /\ \E b \in {encodeMatrix(prefix, object)}, junk \in JunkBytes :
       cdc' = [phase |-> "matrix", object |-> object, start |-> Len(prefix), buffer |-> b,
               decoded |-> decodeMatrix(b, Len(prefix), junk)]
  /\ UNCHANGED <<sessionVars, mm, wire, life>>

CodecNext ==
  \/ \E prefix \in Prefixes, args \in CodecCalls : EncodeCall(prefix, args)
  \/ EncodeOne
  \/ decodeNext
  \/ \E host \in BOOLEAN, prefix \in Prefixes, i \in IntRange : encodeIntCall(host, prefix, i)
  \/ \E prefix \in Prefixes, h \in 0..MaxDim, w \in 0..MaxDim, c \in ImageChannels,
        tail \in ImageTails : decodeImageCall(prefix, h, w, c, tail)
  \/ \E host \in BOOLEAN, prefix \in Prefixes, h \in 0..MaxDim, w \in 0..MaxDim :
       encodeDepthCall(host, prefix, h, w)
  \/ \E prefix \in Prefixes, object \in Matrices : encodeMatrixCall(prefix, object)

CodecSpec == Init /\ [][CodecNext]_vars

(***************************************************************************)
(* Properties.                                                             *)
(***************************************************************************)
\* Thread t is between the start of its send and the end of its receive.
InFlight(t) == pc[t] \in {"send", "readSize", "readCode", "readData"}

\* Thread t is past the checks of its operation, or has left it.
PastChecks(t) == pc[t] \notin {"idle", "lock", "build"}

\* Thread t has made no call on the socket and written no byte to it.
NoSocketIO(t) ==
  /\ io[t].sends = 0 /\ io[t].reads = 0 /\ io[t].bytes = 0
  /\ \A i \in DOMAIN outOwner : outOwner[i] # t

\* The operation of t ended with an exception thrown by its own checks.
ValidationError(t) ==
  /\ pc[t] = "failed" /\ exc[t].code = "badValue"
  /\ exc[t].text # "Server error : " /\ exc[t].arg = << >>

\* No writer's bytes are split by the bytes of another writer.
NotInterleaved(owners) ==
  \A i \in 1..(Len(owners) - 1) :
    owners[i] # owners[i + 1] => \A j \in 1..i : owners[j] # owners[i + 1]

\* The command of the request frame thread t built.
SentCommand(t) == stringToMessage(SubSeq(data[t], SIZEOF_U32 + 1, HEADER_SIZE))

\* C1: on one session, whatever the threads call and however they interleave,
\* at every instant at most one operation is between the start of its send
\* and the end of its receive.
C1_OneCycleInFlight == Cardinality({t \in Threads : InFlight(t)}) <= 1

\* A thread is in the middle of its send while another one has called an
\* operation and waits.
C1_Witness ==
  \E t, u \in Threads :
    /\ t # u /\ pc[t] = "send" /\ sent[t] > 0 /\ sent[t] < Len(data[t])
    /\ pc[u] = "lock"

\* C2: whenever an operation has ended, by return or by any exception
\* (validation, I/O error on receive, server ERROR reply, unexpected reply),
\* the session mutex is not left held by it.
C2_LockFreeAfterExit ==
  /\ \A t \in Threads : pc[t] \in {"done", "failed"} => mutex # t
  /\ (\A t \in Threads : pc[t] \in {"idle", "lock", "done", "failed"}) => mutex = NoThread

\* One operation has failed on a server ERROR reply and another on an I/O
\* error, and the mutex is free.
C2_Witness ==
  \E t, u \in Threads :
    /\ pc[t] = "failed" /\ exc[t].code = "badValue" /\ exc[t].text = "Server error : "
    /\ pc[u] = "failed" /\ exc[u].code = "ioError"
    /\ mutex = NoThread

\* Some thread or the peer can take a step: a thread has an operation to
\* call, is at the mutex and finds it free, is computing or sending, or is
\* in a read() that can return; or the peer has a request frame to answer.
CanStep ==
  \/ \E t \in Threads :
       \/ pc[t] \in {"idle", "build", "send", "reply"}
       \/ pc[t] = "lock" /\ mutex = NoThread
       \/ pc[t] \in {"readSize", "readCode", "readData"} /\ Readable
  \/ ~peerClosed /\ PeerHasFrame

\* C3: with N threads calling concurrently and a peer that answers every
\* request frame with a reply echoing its tag, the request bytes of different
\* operations are never interleaved on the wire, no operation reads a byte of
\* the reply to another one, no operation fails, every operation that has
\* read its reply has read exactly the reply to its own request, and the run
\* can only stop when every operation has completed.
C3_OwnReply ==
  /\ alive /\ ~ub
  /\ NotInterleaved(outOwner)
  /\ \A t \in Threads :
       /\ got[t] \subseteq {t}
       /\ pc[t] # "failed"
       /\ pc[t] \in {"reply", "done"} =>
            /\ got[t] = {t}
            /\ rd[t].code = codeMap[ExpectedReply(req[t].op)]
            /\ rd[t].data = PeerEcho(SentCommand(t), t)
  /\ Len(doneOrder) = Cardinality({t \in Threads : pc[t] = "done"})
  /\ ~CanStep => \A t \in Threads : pc[t] = "done"

\* Every thread has completed an operation, each with the reply to its own
\* request.
C3_Witness ==
  /\ \A t \in Threads : pc[t] = "done" /\ got[t] = {t} /\ io[t].reads = 3
  /\ Len(doneOrder) = NThreads
  /\ \E t, u \in Threads : req[t].op = "estimatePoses" /\ req[u].op = "setCoarseNumSamples"

\* C4: a caller that finds the session busy is never failed for it; it
\* waits and, the peer answering every request and the mutex being granted
\* fairly, it completes its own cycle.
C4_CallersComplete ==
  /\ \A t \in Threads : [](pc[t] # "failed")
  /\ \A t \in Threads : (pc[t] = "lock") ~> (pc[t] = "done")

\* A caller waits for the mutex while another operation reads its reply.
C4_Witness ==
  \E t, u \in Threads :
    /\ t # u /\ mutex = t /\ pc[t] = "readData"
    /\ pc[u] = "lock"

\* The place of the first and of the last byte thread t wrote to the socket.
FirstByte(t) == CHOOSE i \in DOMAIN outOwner :
                  outOwner[i] = t /\ \A j \in 1..(i - 1) : outOwner[j] # t
LastByte(t) == CHOOSE i \in DOMAIN outOwner :
                 outOwner[i] = t /\ \A j \in (i + 1)..Len(outOwner) : outOwner[j] # t
HasWritten(t) == \E i \in DOMAIN outOwner : outOwner[i] = t

\* C5: if operation A has completed when operation B enters its cycle, the
\* whole request frame of A is on the wire before any byte of B's; and the
\* n-th operation to complete is the n-th the peer has processed.
C5_Order ==
  /\ \A b \in Threads : \A a \in doneBefore[b] :
       /\ io[a].bytes = Len(data[a])
       /\ HasWritten(a)
       /\ HasWritten(b) => LastByte(a) < FirstByte(b)
  /\ \A n \in DOMAIN doneOrder :
       n <= Len(served) /\ served[n].owner = doneOrder[n]

\* A setIntrinsics has completed, then another operation has started and
\* completed.
C5_Witness ==
  /\ Len(doneOrder) >= 2
  /\ req[doneOrder[1]].op = "setIntrinsics"
  /\ req[doneOrder[2]].op = "estimatePoses"
  /\ doneOrder[1] \in doneBefore[doneOrder[2]]

\* C6: estimatePoses with neither detections nor initial poses fails with a
\* validation error, sends no byte and reads nothing.
C6_NoInputsRejected ==
  \A t \in Threads :
    (/\ req[t].op = "estimatePoses" /\ PastChecks(t)
     /\ req[t].detections = Null /\ req[t].initial_cTos = Null)
    => /\ ValidationError(t)
       /\ NoSocketIO(t)

C6_Witness ==
  \E t \in Threads :
    /\ req[t].op = "estimatePoses" /\ pc[t] = "failed"
    /\ req[t].detections = Null /\ req[t].initial_cTos = Null
    /\ req[t].labels = 1 /\ ~req[t].depth
    /\ toServer = << >>

\* The lists given to estimatePoses have the size of labels.
ListsMatch(r) ==
  /\ r.detections # Null => r.detections = r.labels
  /\ r.initial_cTos # Null => r.initial_cTos = r.labels

CountTexts == {"Same number of bounding boxes and labels must be provided.",
               "An initial estimate should be given for each detected object in the image"}

\* C7: estimatePoses fails with a validation error and does no socket I/O
\* when a given list (detections, initial poses) has not the size of labels;
\* when every given list has it, no count check fails the call.
C7_CountsChecked ==
  \A t \in Threads :
    (req[t].op = "estimatePoses" /\ PastChecks(t))
    => /\ ~ListsMatch(req[t]) => ValidationError(t) /\ NoSocketIO(t)
       /\ ListsMatch(req[t]) => exc[t].text \notin CountTexts

C7_Witness ==
  \E t \in Threads :
    /\ req[t].op = "estimatePoses" /\ pc[t] = "failed"
    /\ req[t].detections = req[t].labels /\ req[t].initial_cTos \notin {Null, req[t].labels}
    /\ exc[t].text = "An initial estimate should be given for each detected object in the image"

\* C8: estimatePoses with a depth image and a scale that is zero or
\* negative fails with a validation error before any byte is sent; without
\* a depth image the scale is not looked at: the call passes the checks
\* whenever its lists do.
C8_DepthScaleChecked ==
  \A t \in Threads :
    (req[t].op = "estimatePoses" /\ PastChecks(t))
    => /\ (req[t].depth /\ req[t].depth_to_m <= 0) => ValidationError(t) /\ NoSocketIO(t)
       /\ (/\ ~req[t].depth /\ ListsMatch(req[t])
           /\ ~(req[t].detections = Null /\ req[t].initial_cTos = Null))
          => ~ValidationError(t) /\ (pc[t] = "send" \/ io[t].sends = 1)

C8_Witness ==
  \E t \in Threads :
    /\ req[t].op = "estimatePoses" /\ pc[t] = "failed"
    /\ req[t].depth /\ req[t].depth_to_m = 0
    /\ exc[t].text = "When using depth, the scale factor should be specified."

\* C9: scorePoses with a number of poses different from the number of
\* labels fails with a validation error and does no socket I/O.
C9_PoseCountChecked ==
  \A t \in Threads :
    (req[t].op = "scorePoses" /\ PastChecks(t) /\ req[t].cTos # req[t].labels)
    => /\ ValidationError(t)
       /\ NoSocketIO(t)

C9_Witness ==
  \E t \in Threads :
    /\ req[t].op = "scorePoses" /\ pc[t] = "failed"
    /\ req[t].cTos # req[t].labels
    /\ exc[t].text = "The number of poses should be the same as the number of object labels"

\* C10: for every known command C and payload P, the frame makeMessage
\* builds is the length of P in 4 bytes, big-endian, then the 4 bytes of the
\* code of C, then P unchanged; the declared length always equals the number
\* of bytes that follow the 8-byte header.
C10_FrameLayout ==
  mm.called =>
    /\ ntohl(SubSeq(mm.frame, 1, SIZEOF_U32)) = mm.size
    /\ SubSeq(mm.frame, SIZEOF_U32 + 1, HEADER_SIZE) = codeMap[mm.messageType]
    /\ mm.enumerated =>
         /\ Len(mm.frame) = HEADER_SIZE + Len(mm.payload)
         /\ SubSeq(mm.frame, HEADER_SIZE + 1, Len(mm.frame)) = mm.payload
         /\ SubSeq(mm.frame, 1, SIZEOF_U32) =
              <<0, 0, Len(mm.payload) \div 256, Len(mm.payload) % 256>>

(***************************************************************************)
(* Properties of the framing and of the transport.                         *)
(***************************************************************************)
\* Thread t is inside readMessage.
Reading(t) == pc[t] \in {"readSize", "readCode", "readData"}

\* readMessage of thread t has returned a command and a payload.
ReadReturned(t) ==
  \/ pc[t] \in {"reply", "done"}
  \/ pc[t] = "failed" /\ exc[t].code \in {"fatalError", "length_error"}
  \/ pc[t] = "failed" /\ exc[t].code = "badValue" /\ exc[t].text = "Server error : "

\* The bytes of the peer's stream that the reads of the session have taken.
StreamConsumed ==
  HEADER_SIZE + Len(wire.payload) + Len(wire.tail) - Len(wire.pending) - Len(toClient)

\* C11: for every known command C and every payload P (empty, small, longer
\* than one read of 4096 bytes), readMessage applied to the bytes of
\* makeMessage(C, P) returns C and P: it does not fail, it does not stay
\* waiting for bytes once the frame has arrived, it leaves no byte of the
\* frame unread, and the command and the payload it returns are C and P.
C11_FrameRoundTrip ==
  \A t \in Threads :
    wire.command # "none" =>
      /\ ~(pc[t] = "failed" /\ exc[t].code = "ioError")
      /\ Reading(t) => (~ub /\ (Len(toClient) > 0 \/ Len(wire.pending) > 0))
      /\ ReadReturned(t) =>
           /\ stringToMessage(rd[t].code) = wire.command
           /\ rd[t].data = wire.payload
           /\ StreamConsumed = HEADER_SIZE + Len(wire.payload)

\* readMessage has returned a payload that took two turns of its loop.
C11_Witness ==
  /\ pc[1] = "reply" /\ wire.command = "RET_VIZ"
  /\ wire.payload = LargePayload /\ rd[1].data = LargePayload
  /\ io[1].reads = 4 /\ io[1].last = 1

\* C12: however the stream splits its bytes across the reads, readMessage
\* stores no byte beyond the payload buffer, takes from the stream exactly
\* the 8 bytes of the header and the declared number of payload bytes (no
\* byte of what follows the frame), and returns those payload bytes in order.
C12_ExactRead ==
  \A t \in Threads :
    wire.command # "none" =>
      /\ (Reading(t) \/ pc[t] = "reply") => ~ub
      /\ pc[t] = "reply" =>
           /\ StreamConsumed = HEADER_SIZE + Len(wire.payload)
           /\ rd[t].data = wire.payload

\* C13: while a frame is received, a read that returns some bytes, fewer
\* than are still needed, does not make the receive fail: the receive fails
\* with an I/O error only on a read that returned no byte (or an error).
C13_ShortReadRetried ==
  \A t \in Threads :
    (pc[t] = "failed" /\ exc[t].code = "ioError") => io[t].last <= 0

\* C14: an operation whose send took fewer bytes than the frame has (or
\* failed) fails with an I/O error and makes no read for a reply.
C14_ShortWriteFails ==
  \A t \in Threads :
    (io[t].sends = 1 /\ sent[t] < Len(data[t]) /\ pc[t] # "send")
    => (pc[t] = "failed" /\ exc[t].code = "ioError" /\ io[t].reads = 0)

(***************************************************************************)
(* Properties of the command table and of the validation of replies.       *)
(***************************************************************************)
\* The command readMessage of thread t returned.
ReplyCommand(t) == stringToMessage(rd[t].code)

\* The operation of t has compared the reply command and acted on it.
Decided(t) == ReadReturned(t) /\ pc[t] # "reply"

\* The operation of t failed with the error for a server ERROR reply.
ServerErrorOf(t) ==
  pc[t] = "failed" /\ exc[t].code = "badValue" /\ exc[t].text = "Server error : "

\* The operation of t failed with the error for an unexpected reply.
UnexpectedOf(t) ==
  /\ pc[t] = "failed" /\ exc[t].code = "fatalError"
  /\ exc[t].text = "Megapose: got an unexpected message from the server"

\* C15: readMessage on a well-formed frame whose code is none of the ten
\* codes of the table returns UNKNOWN with the whole payload and does not
\* fail; the operation then fails as for an unexpected reply.
C15_UnknownCodeReturned ==
  \A t \in Threads :
    (/\ Len(rd[t].code) = MEGAPOSE_CODE_SIZE
     /\ \A m \in KnownMessages : codeMap[m] # rd[t].code
     /\ ~Reading(t))
    => /\ ReplyCommand(t) = "UNKNOWN"
       /\ rd[t].data = PeerEcho(SentCommand(t), t)
       /\ pc[t] = "reply" \/ UnexpectedOf(t)

\* An operation has failed on a reply whose code is not in the table and
\* whose payload is not empty.
C15_Witness ==
  \E t \in Threads :
    /\ UnexpectedOf(t) /\ rd[t].code = <<88, 88, 88, 88>> /\ Len(rd[t].data) > 0
    /\ req[t].op = "viewObjects"

\* The reference mapping of the commands to their codes, letter by letter.
ReferenceCodes ==
  [m \in KnownMessages |->
     CASE m = "ERR"               -> <<"R", "E", "R", "R">>
       [] m = "OK"                -> <<"O", "K", "O", "K">>
       [] m = "GET_POSE"          -> <<"G", "E", "T", "P">>
       [] m = "RET_POSE"          -> <<"R", "E", "T", "P">>
       [] m = "SET_INTR"          -> <<"I", "N", "T", "R">>
       [] m = "GET_VIZ"           -> <<"G", "E", "T", "V">>
       [] m = "RET_VIZ"           -> <<"R", "E", "T", "V">>
       [] m = "GET_SCORE"         -> <<"G", "S", "C", "O">>
       [] m = "RET_SCORE"         -> <<"R", "S", "C", "O">>
       [] m = "SET_SO3_GRID_SIZE" -> <<"S", "O", "3", "G">>]

\* ASCII.
AsciiCode ==
  [c \in {"3", "C", "E", "G", "I", "K", "N", "O", "P", "R", "S", "T", "V"} |->
     CASE c = "3" -> 51 [] c = "C" -> 67 [] c = "E" -> 69 [] c = "G" -> 71
       [] c = "I" -> 73 [] c = "K" -> 75 [] c = "N" -> 78 [] c = "O" -> 79
       [] c = "P" -> 80 [] c = "R" -> 82 [] c = "S" -> 83 [] c = "T" -> 84
       [] c = "V" -> 86]

\* The command each operation passes to makeMessage.
RequestCommand(op) ==
  CASE op = "estimatePoses" -> "GET_POSE"
    [] op = "scorePoses" -> "GET_SCORE"
    [] op = "setIntrinsics" -> "SET_INTR"
    [] op = "viewObjects" -> "GET_VIZ"
    [] op = "setCoarseNumSamples" -> "SET_SO3_GRID_SIZE"

\* C16: the table maps the ten commands other than UNKNOWN to ten pairwise
\* distinct codes of 4 bytes, those of the reference mapping, and
\* stringToMessage(messageToString(c)) = c for each; this is so in every
\* state the operations of the session reach (the table is a constant), and
\* every request frame they build carries the reference code of its command.
C16_CommandTable ==
  /\ DOMAIN codeMap = KnownMessages /\ Cardinality(KnownMessages) = 10
  /\ "UNKNOWN" \notin KnownMessages
  /\ \A t \in Threads :
       Len(data[t]) >= HEADER_SIZE =>
         SubSeq(data[t], SIZEOF_U32 + 1, HEADER_SIZE) =
           [i \in 1..MEGAPOSE_CODE_SIZE |-> AsciiCode[ReferenceCodes[RequestCommand(req[t].op)][i]]]
  /\ \A m \in KnownMessages :
       /\ codeMap[m] = [i \in 1..MEGAPOSE_CODE_SIZE |-> AsciiCode[ReferenceCodes[m][i]]]
       /\ stringToMessage(messageToString(m)) = m
       /\ \A n \in KnownMessages : n # m => codeMap[n] # codeMap[m]

\* An operation has used the table both ways: it sent GET_SCORE and took
\* the reply it read for RET_SCORE.
C16_Witness ==
  \E t \in Threads :
    /\ pc[t] = "done" /\ req[t].op = "scorePoses"
    /\ SentCommand(t) = "GET_SCORE" /\ ReplyCommand(t) = "RET_SCORE"

\* C17: in every operation the reply is judged three ways: its command is
\* the expected one and the operation goes on to its result; it is ERR and
\* the operation fails with the server error; it is any other command,
\* UNKNOWN included, and the operation fails with the unexpected-message
\* error, which differs from the server error.
C17_ThreeWayDecision ==
  \A t \in Threads :
    Decided(t) =>
      /\ ReplyCommand(t) = ExpectedReply(req[t].op) => pc[t] = "done"
      /\ ReplyCommand(t) = "ERR" => ServerErrorOf(t) /\ ~UnexpectedOf(t)
      /\ ReplyCommand(t) \notin {ExpectedReply(req[t].op), "ERR"}
           => UnexpectedOf(t) /\ ~ServerErrorOf(t)

\* An operation has failed on a reply with a command of the table that is
\* neither ERR nor the one it expects.
C17_Witness ==
  \E t \in Threads :
    /\ UnexpectedOf(t) /\ req[t].op = "estimatePoses" /\ ReplyCommand(t) = "OK"

\* C18 as stated: when the peer replies ERR with the length-prefixed text s,
\* the message of the error the operation fails with is exactly s.
C18_ExactMessage ==
  \A t \in Threads :
    (Decided(t) /\ ReplyCommand(t) = "ERR")
    => /\ ServerErrorOf(t)
       /\ rd[t].data = encodeString(<< >>, exc[t].arg)
       /\ exc[t].text = ""

\* C18 amended: when the peer replies ERR with the length-prefixed text s,
\* the message of the error the operation fails with is "Server error : "
\* followed by exactly s.
C18_ServerErrorMessage ==
  \A t \in Threads :
    (Decided(t) /\ ReplyCommand(t) = "ERR")
    => /\ ServerErrorOf(t)
       /\ rd[t].data = encodeString(<< >>, exc[t].arg)
       /\ exc[t].text = "Server error : "

\* An operation has failed on an ERR reply carrying "bad input".
C18_Witness ==
  \E t \in Threads :
    /\ ServerErrorOf(t) /\ ReplyCommand(t) = "ERR" /\ exc[t].arg = BadInput
    /\ req[t].op = "setIntrinsics"

\* C19: when the reply command is neither the expected one nor ERR, the
\* error raised names the expected command and the command received.
C19_NamesBothCommands ==
  \A t \in Threads :
    (pc[t] = "failed" /\ exc[t].code = "fatalError")
    => exc[t].arg = <<ExpectedReply(req[t].op), ReplyCommand(t)>>

\* The decode thread t ran on the payload it received read a byte at or
\* beyond the end of the payload.
DecodedOutOfBounds(t) ==
  IF ReplyCommand(t) = ExpectedReply(req[t].op)
  THEN decodeResult(req[t].op, rd[t].data, 0).oob
  ELSE ReplyCommand(t) = "ERR" /\ decodeString(rd[t].data, 0, 0).oob

\* C20: no decode reads a byte at an index at or beyond the length of its
\* buffer: an operation that has decoded its reply, or the message of an
\* ERR reply, has read only bytes of the payload it received.
C20_DecodeInBounds ==
  \A t \in Threads : Decided(t) => ~DecodedOutOfBounds(t)

(***************************************************************************)
(* Properties of the codec.                                                *)
(***************************************************************************)
\* The offset at which the k-th value of the harness was appended, and the
\* offset after its last byte.
AppendedAt(k) == IF k = 1 THEN cdc.start ELSE cdc.ends[k - 1]
AppendedTo(k) == cdc.ends[k]

\* The harness is decoding, or has decoded, the values it encoded.
Decoding == cdc.phase \in {"decoding", "decoded"}

\* C21: for every supported type (32-bit int, string, sequence, nested
\* sequences included, 4-channel RGBA image) and every value v, the decode
\* of that type from the offset at which encode(v) was appended never
\* throws and reads no byte beyond the buffer, and when it has returned the
\* value it gives is v and the cursor has advanced by exactly the number of
\* bytes the encoder appended for v.
C21_CodecRoundTrip ==
  /\ cdc.phase # "thrown"
  /\ Decoding =>
       \A k \in 1..Len(cdc.out) :
         /\ cdc.out[k].value = cdc.args[k].v
         /\ ~cdc.out[k].oob
         /\ cdc.out[k].from = AppendedAt(k)
         /\ cdc.out[k].to - cdc.out[k].from = AppendedTo(k) - AppendedAt(k)

\* A sequence of sequences of different lengths, one of them empty, has
\* been decoded from an offset that is not 0.
C21_Witness ==
  /\ cdc.phase = "decoded" /\ cdc.start = 5
  /\ cdc.args[1].T = <<"vector", "vector", "int">>
  /\ Len(cdc.out[1].value.items) = 3
  /\ cdc.out[1].value.items[2] = VecVal(<< >>)

\* The k-th value of the harness is a sequence.
IsVector(k) == Head(cdc.args[k].T) = "vector"

\* The encodings of the elements of the k-th value, each encoded alone, one
\* after the other in the order of the sequence.
ElementEncodings(k) ==
  Flatten([i \in DOMAIN cdc.args[k].v.items |->
             encode(<< >>, Tail(cdc.args[k].T), cdc.args[k].v.items[i])])

\* C22: encoding a sequence of n elements appends the 4 bytes of n, most
\* significant first, then the encodings of the n elements in order;
\* decoding it yields n elements and leaves the cursor at the first byte
\* after the last element, also when the elements are sequences or strings
\* of different lengths.
C22_SequenceLaw ==
  cdc.phase \in {"encoding", "decoding", "decoded"} =>
    \A k \in 1..Len(cdc.ends) :
      IsVector(k) =>
        \E n \in {Len(cdc.args[k].v.items)} :
          /\ SubSeq(cdc.single, AppendedAt(k) + 1, AppendedAt(k) + SIZEOF_U32)
               = <<0, 0, n \div 256, n % 256>>
          /\ SubSeq(cdc.single, AppendedAt(k) + SIZEOF_U32 + 1, AppendedTo(k))
               = ElementEncodings(k)
          /\ k <= Len(cdc.out) =>
               /\ Len(cdc.out[k].value.items) = n
               /\ cdc.out[k].to = AppendedTo(k)

\* A sequence of three strings of lengths 1, 0 and 2 has been decoded and
\* the value that follows it has been decoded from where it ended.
C22_Witness ==
  /\ cdc.phase = "decoded" /\ Len(cdc.args) = 2
  /\ cdc.args[1].T = <<"vector", "string">>
  /\ Len(cdc.out[1].value.items) = 3
  /\ cdc.out[1].value.items[3] = StrVal(<<66, 67>>)
  /\ cdc.out[2].from = cdc.out[1].to /\ cdc.args[2].T = <<"int">>

\* The sum of the encoded sizes of the first k values of the harness, each
\* value encoded alone.
RECURSIVE EncodedSizes(_)
EncodedSizes(k) ==
  IF k = 0 THEN 0
  ELSE EncodedSizes(k - 1) + Len(encode(<< >>, cdc.args[k].T, cdc.args[k].v))

\* C23: one call of encode with several values appends the bytes that one
\* call per value, in the same order, appends; and decode with several
\* values reads them in that order with one cursor: after k values the
\* values read are the first k values encoded and the cursor is the start
\* offset plus the sum of their k encoded sizes.
C23_MultiArgument ==
  /\ cdc.phase = "encoding" =>
       /\ Len(cdc.single) <= Len(cdc.buffer)
       /\ SubSeq(cdc.buffer, 1, Len(cdc.single)) = cdc.single
  /\ Decoding =>
       /\ cdc.buffer = cdc.single
       /\ cdc.index = cdc.start + EncodedSizes(Len(cdc.out))
       /\ \A k \in 1..Len(cdc.out) :
            /\ cdc.out[k].value = cdc.args[k].v
            /\ cdc.out[k].from = cdc.start + EncodedSizes(k - 1)

\* Two values of different types and sizes, given to one call of encode,
\* have been decoded by one call of decode.
C23_Witness ==
  /\ cdc.phase = "decoded" /\ Len(cdc.args) = 2 /\ cdc.start = 1
  /\ cdc.args[1].T = <<"string">> /\ Len(cdc.args[1].v.bytes) = 1
  /\ cdc.args[2].T = <<"image">>
  /\ cdc.index = Len(cdc.buffer)

\* The four bytes of the 32-bit two's complement form of an integer, most
\* significant first.
NetworkOrder(i) ==
  <<(i \div 16777216) % 256, (i \div 65536) % 256, (i \div 256) % 256, i % 256>>

\* C24: encoding a 32-bit integer appends exactly 4 bytes, most significant
\* first, on a host of either byte order; decoding those 4 bytes returns
\* the same integer, for values over the whole 32-bit range, negative ones
\* included.
C24_IntNetworkOrder ==
  cdc.phase = "int" =>
    /\ Len(cdc.buffer) = cdc.start + 4
    /\ SubSeq(cdc.buffer, cdc.start + 1, Len(cdc.buffer)) = NetworkOrder(cdc.object)
    /\ cdc.decoded.value = cdc.object
    /\ cdc.decoded.index = cdc.start + 4
    /\ ~cdc.decoded.oob

\* INT_MIN has been encoded and decoded on a little-endian host.
C24_Witness ==
  /\ cdc.phase = "int" /\ ~cdc.host /\ cdc.object = 0 - IntMax - 1
  /\ cdc.decoded.value < 0
  /\ SubSeq(cdc.buffer, cdc.start + 1, Len(cdc.buffer)) = <<128, 0, 0, 0>>

\* C25: decoding an RGBA image whose header declares 3 channels reads 3
\* bytes per pixel, row by row, gives every pixel the fourth channel 255
\* without reading it from the buffer, and advances the cursor by
\* 12 + 3 * height * width bytes in all.
C25_ThreeChannelImage ==
  (cdc.phase = "image" /\ cdc.channels = 3) =>
    /\ cdc.decoded.value.height = cdc.height /\ cdc.decoded.value.width = cdc.width
    /\ Len(cdc.decoded.value.pixels) = cdc.height * cdc.width
    /\ \A i \in 0..(cdc.height - 1), j \in 0..(cdc.width - 1) :
         \E at \in {3 * (i * cdc.width + j)} :
           cdc.decoded.value.pixels[i * cdc.width + j + 1]
             = <<cdc.raw[at + 1], cdc.raw[at + 2], cdc.raw[at + 3], 255>>
    /\ cdc.decoded.index = cdc.start + 12 + 3 * cdc.height * cdc.width
    /\ ~cdc.decoded.oob

\* An image of MaxDim rows and MaxDim columns with 3 channels, which ends
\* its buffer, has been decoded.
C25_Witness ==
  /\ cdc.phase = "image" /\ cdc.channels = 3
  /\ cdc.height = MaxDim /\ cdc.width = MaxDim
  /\ cdc.decoded.index = Len(cdc.buffer) /\ cdc.start = 1
  /\ cdc.decoded.value.pixels[MaxDim * MaxDim][4] = 255

\* The bytes the harness appended for its depth map, from the n-th on.
DepthBytesFrom(n) == SubSeq(cdc.buffer, cdc.start + n, Len(cdc.buffer))

\* The pixel bytes of the depth map of the harness in the byte order of its
\* host: each pixel's most significant byte first on a big-endian host,
\* last on a little-endian one.
HostOrderPixels ==
  Flatten([p \in DOMAIN cdc.pixels |->
             IF cdc.host THEN <<cdc.pixels[p] \div 256, cdc.pixels[p] % 256>>
             ELSE <<cdc.pixels[p] % 256, cdc.pixels[p] \div 256>>])

\* C26 as stated: encoding a single-channel 16-bit image of height h and
\* width w appends the image header of three 4-byte integers (height,
\* width, channel count), then one endianness marker byte, then exactly
\* 2 * h * w raw pixel bytes in host byte order.
C26_DepthImageLayout ==
  cdc.phase = "depth" =>
    /\ Len(DepthBytesFrom(1)) = 3 * SIZEOF_U32 + 1 + 2 * cdc.height * cdc.width
    /\ SubSeq(DepthBytesFrom(1), 1, 2 * SIZEOF_U32)
         = NetworkOrder(cdc.height) \o NetworkOrder(cdc.width)
    /\ DepthBytesFrom(3 * SIZEOF_U32 + 1)[1] = EndianMark(cdc.host)
    /\ DepthBytesFrom(3 * SIZEOF_U32 + 2) = HostOrderPixels

\* C26 amended: encoding a single-channel 16-bit image of height h and
\* width w appends a header of two 4-byte integers (height, width, no
\* channel count), then one endianness marker byte ('>' on a big-endian
\* host, '<' otherwise), then exactly 2 * h * w raw pixel bytes in host byte
\* order.
C26_DepthImageTwoIntHeader ==
  cdc.phase = "depth" =>
    /\ Len(DepthBytesFrom(1)) = 2 * SIZEOF_U32 + 1 + 2 * cdc.height * cdc.width
    /\ SubSeq(DepthBytesFrom(1), 1, 2 * SIZEOF_U32)
         = NetworkOrder(cdc.height) \o NetworkOrder(cdc.width)
    /\ DepthBytesFrom(2 * SIZEOF_U32 + 1)[1] = (IF cdc.host THEN 62 ELSE 60)
    /\ DepthBytesFrom(2 * SIZEOF_U32 + 2) = HostOrderPixels

\* A depth map of MaxDim rows and one column has been encoded on a
\* big-endian host after one byte of the buffer.
C26_Witness ==
  /\ cdc.phase = "depth" /\ cdc.host /\ cdc.start = 1
  /\ cdc.height = MaxDim /\ cdc.width = 1
  /\ cdc.buffer[cdc.start + 2 * SIZEOF_U32 + 1] = 62
  /\ Len(cdc.buffer) = cdc.start + 2 * SIZEOF_U32 + 1 + 2 * MaxDim

(***************************************************************************)
(* Properties of the construction and of the destruction.                  *)
(***************************************************************************)
\* C27: destroying the client releases the connection opened at
\* construction: after it the descriptor socket() gave the constructor is
\* closed, and no other descriptor has been closed.
C27_SocketClosed ==
  life.state = "destroyed" =>
    /\ life.serverSocket \notin life.open
    /\ \A i \in DOMAIN life.closed : life.closed[i] = life.serverSocket

\* No byte of a request has been written to the socket by any thread.
NothingSent ==
  /\ toServer = << >> /\ outOwner = << >> /\ served = << >>
  /\ \A t \in Threads : io[t].sends = 0 /\ io[t].bytes = 0 /\ pc[t] = "idle"

\* The constructor has failed with the error of an address that is not
\* valid or of a connection that was not made.
ConnectionError ==
  /\ life.state = "failed"
  /\ \/ life.exc.code = "badValue" /\ life.exc.text = "Invalid ip address: "
     \/ life.exc.code = "ioError" /\ life.exc.text = "Could not connect to server at "

\* C28: opening a session with a host string that is not a literal numeric
\* IPv4 address, or towards a peer that refuses the connection, fails with
\* a connection error, and then no request frame, in particular no
\* intrinsics frame, is ever sent.
C28_ConnectionFailure ==
  (/\ life.state # "none" /\ life.serverSocket # Null
   /\ (inet_pton(life.host) # 1 \/ life.peer = "refusing"))
  => /\ ConnectionError
     /\ NothingSent

\* The construction with the host "localhost", towards a peer that listens,
\* has failed on the address before anything was sent.
C28_Witness ==
  /\ life.state = "failed" /\ life.host = <<Null>> /\ life.peer = "listening"
  /\ life.exc.text = "Invalid ip address: "
  /\ NothingSent

(***************************************************************************)
(* Properties of the request/reply exchange.                               *)
(***************************************************************************)
\* The peer has written a frame and all its bytes have reached the socket.
FrameComplete == wire.command # "none" /\ wire.pending = << >>

\* C29: no operation has a timeout: as long as the peer has not sent a
\* complete reply and has not closed the stream, an operation that has sent
\* its request has not returned, holds the lock of the session, and every
\* other caller is outside or waits for the lock.
C29_BlocksWithoutReply ==
  \A t \in Threads :
    (io[t].sends = 1 /\ ~FrameComplete /\ ~peerClosed)
    => /\ pc[t] \notin {"done", "failed"}
       /\ mutex = t
       /\ \A u \in Threads \ {t} : pc[u] \in {"idle", "lock"}

\* The operation of thread t is past its send.
PastSend(t) == pc[t] \in {"readSize", "readCode", "readData", "reply", "done"}

\* C30: an operation that passes validation sends exactly one request
\* frame, whole, and only then receives exactly one reply frame, with the
\* pairing GET_POSE->RET_POSE, GET_SCORE->RET_SCORE, SET_INTR->OK,
\* GET_VIZ->RET_VIZ, SO3G->OK; on a failure nothing is sent again and the
\* failure reaches the caller: an operation is past its send only with its
\* whole frame written, and returns a result only on the paired reply.
C30_OneRequestOneReply ==
  \A t \in Threads :
    /\ io[t].bytes <= Len(data[t])
    /\ PastSend(t) =>
         /\ sent[t] = Len(data[t])
         /\ stringToMessage(SubSeq(data[t], SIZEOF_U32 + 1, HEADER_SIZE))
              = RequestCommand(req[t].op)
    /\ pc[t] = "done" =>
         /\ stringToMessage(rd[t].code) = ExpectedReply(req[t].op)
         /\ rd[t].read_total = U32ToNat(rd[t].size)
    /\ pc[t] = "failed" => exc[t].code # "none"

\* C31: after an operation has failed on its reply (a server ERROR reply,
\* an unexpected reply, an I/O error of a short or failed read), the stream
\* not being closed, the position in the inbound stream is at a frame
\* boundary: the reads have taken every byte of the reply frame, or none.
C31_FrameBoundary ==
  \A t \in Threads :
    (/\ pc[t] = "failed" /\ io[t].sends = 1
     /\ wire.command # "none" /\ ~peerClosed
     /\ \A u \in Threads : ~Reading(u))
    => StreamConsumed \in {0, HEADER_SIZE + Len(wire.payload)}

(***************************************************************************)
(* Properties of the operations' payloads.                                 *)
(***************************************************************************)
\* The payload of the frame thread t has built.
PayloadOf(t) == SubSeq(data[t], HEADER_SIZE + 1, Len(data[t]))

\* Thread t has built the frame of an estimatePoses.
BuiltPose(t) == req[t].op = "estimatePoses" /\ data[t] # << >>

\* C32: the payload of GET_POSE is, in this order, the encoded RGBA image,
\* the parameter text as one length-prefixed string, unchanged, and the
\* encoded depth image if and only if a depth image was given; the text
\* marks the use of depth as true exactly when the depth image is there.
C32_PosePayload ==
  \A t \in Threads :
    BuiltPose(t) =>
      LET P     == PayloadOf(t)
          image == decodeImageRGBa(P, 0, 0)
          text  == decodeString(P, image.index, 0)
          rest  == SubSeq(P, text.index + 1, Len(P))
      IN  /\ stringToMessage(SubSeq(data[t], SIZEOF_U32 + 1, HEADER_SIZE)) = "GET_POSE"
          /\ SubSeq(P, 1, image.index) = encodeImageRGBa(<< >>, TheImage)
          /\ ~image.oob /\ ~text.oob /\ ~text.thrown
          /\ text.value = Dump(req[t])
          /\ (text.value[2] = 1) <=> req[t].depth
          /\ (rest # << >>) <=> req[t].depth
          /\ req[t].depth => rest = encodeImageU16(<< >>, TheDepth, BigEndianHost)

\* An estimatePoses with a depth image has built its frame.
C32_Witness ==
  \E t \in Threads :
    /\ BuiltPose(t) /\ req[t].depth /\ pc[t] = "send"
    /\ Len(PayloadOf(t)) > Len(encodeImageRGBa(<< >>, TheImage)) + SIZEOF_U32 + 2

\* The 4 bytes appended for entry (r, c) of the matrix, after the count.
EntryBytes(r, c) ==
  SubSeq(cdc.buffer, cdc.start + SIZEOF_U32 + 4 * (4 * (r - 1) + (c - 1)) + 1,
         cdc.start + SIZEOF_U32 + 4 * (4 * (r - 1) + (c - 1)) + 4)

\* C33: encoding a rigid transform appends its 16 entries in row-major
\* order as 16 single-precision values of 4 bytes each (they follow the
\* count, 16, that every sequence starts with), and decoding it consumes
\* exactly the bytes the encoding appended and fills the 16 entries in the
\* same order, each with the single-precision value of the entry encoded.
C33_RigidTransform ==
  cdc.phase = "matrix" =>
    /\ Len(cdc.buffer) = cdc.start + SIZEOF_U32 + 4 * MatrixEntries
    /\ SubSeq(cdc.buffer, cdc.start + 1, cdc.start + SIZEOF_U32) = NetworkOrder(MatrixEntries)
    /\ \A r \in 1..4, c \in 1..4 :
         /\ EntryBytes(r, c) = NetworkOrder(cdc.object[r][c].single)
         /\ cdc.decoded.value[r][c] = Double(cdc.object[r][c].single, 0)
    /\ cdc.decoded.index = Len(cdc.buffer)
    /\ ~cdc.decoded.oob /\ ~cdc.decoded.ub /\ ~cdc.decoded.thrown /\ ~cdc.decoded.asserted

\* A matrix of 16 different doubles that are not floats has been encoded
\* after other bytes and decoded.
C33_Witness ==
  /\ cdc.phase = "matrix" /\ cdc.start > 0
  /\ \A r \in 1..4, c \in 1..4 : cdc.object[r][c].below = 1
  /\ cdc.object[1][2] # cdc.object[2][1]
  /\ cdc.decoded.value # cdc.object
  /\ cdc.decoded.value[1][2].single = cdc.object[1][2].single

(***************************************************************************)
(* Properties of the constructor's exchange.                               *)
(***************************************************************************)
\* The constructor has returned: a client exists, or has existed.
Constructed == life.state \in {"constructed", "destroyed"}

\* The constructor's setIntrinsics has read the code of a reply.
FirstReplyRead == rd[1].code # << >> /\ pc[1] \in {"readData", "reply", "done", "failed"}

\* C34: the constructor has returned only after exactly one cycle of a
\* SET_INTR request and its OK reply, made by setIntrinsics after the
\* connect; if the first request is answered with anything other than OK,
\* the construction does not succeed and no operation is ever called on
\* the client; and none is before the constructor has returned.
C34_ConstructorCycle ==
  /\ Constructed =>
       /\ life.fd = 0 /\ pc[1] = "done" /\ req[1].op = "setIntrinsics"
       /\ stringToMessage(SubSeq(data[1], SIZEOF_U32 + 1, HEADER_SIZE)) = "SET_INTR"
       /\ sent[1] = Len(data[1]) /\ io[1].bytes = Len(data[1])
       /\ Len(served) >= 1 /\ served[1] = [owner |-> 1, cmd |-> "SET_INTR"]
       /\ \A i \in DOMAIN served : i > 1 => served[i].owner # 1
       /\ stringToMessage(rd[1].code) = "OK"
  /\ (FirstReplyRead /\ stringToMessage(rd[1].code) # "OK") => ~Constructed
  /\ ~Constructed => \A t \in Threads \ {1} : pc[t] = "idle"

\* The constructor has returned after its exchange, and another thread has
\* then called an operation.
C34_Witness ==
  /\ life.state = "constructed" /\ pc[1] = "done"
  /\ served[1] = [owner |-> 1, cmd |-> "SET_INTR"]
  /\ \E t \in Threads \ {1} : pc[t] = "done"

\* C35: whenever the construction fails after the socket was created (the
\* address is not valid, the connection is refused, the first exchange of
\* intrinsics is rejected), the descriptor of that socket is closed: a
\* failed construction leaves no descriptor open.
C35_NoDescriptorLeft ==
  (life.state = "failed" /\ life.serverSocket # Null)
  => life.serverSocket \notin life.open

(***************************************************************************)
(* Properties of the lock.                                                 *)
(***************************************************************************)
\* Thread t is inside an operation, past the lock_guard.
Inside(t) == pc[t] \in {"build", "send", "readSize", "readCode", "readData", "reply"}

\* A thread inside an operation or at its lock can go on, or the peer has
\* a request to answer.
Progress ==
  \/ \E t \in Threads :
       \/ pc[t] \in {"build", "send", "reply"}
       \/ pc[t] = "lock" /\ mutex = NoThread
       \/ Reading(t) /\ Readable
  \/ PeerHasFrame

\* C36: no thread tries to acquire the lock of the session while it holds
\* it: the holder of the lock is inside one operation and is not at a lock,
\* the constructor reaches the lock of setIntrinsics with the lock free;
\* so, with a peer that answers every request, no state in which an
\* operation is under way is a deadlock.
C36_NoSelfDeadlock ==
  /\ \A t \in Threads : pc[t] = "lock" => mutex # t
  /\ \A t \in Threads : mutex = t <=> Inside(t)
  /\ (life.state = "setIntrinsics" /\ pc[1] = "lock") => mutex = NoThread
  /\ (alive /\ ~peerClosed /\ \E t \in Threads : pc[t] = "lock" \/ Inside(t)) => Progress

\* The constructor's setIntrinsics has taken and released the lock, and a
\* thread that took it afterwards waits in read() for the reply the peer
\* has still to write.
C36_Witness ==
  /\ life.state = "constructed" /\ pc[1] = "done" /\ alive /\ ~peerClosed
  /\ \E t \in Threads \ {1} :
       /\ mutex = t /\ Reading(t) /\ ~Readable /\ PeerHasFrame
       /\ \A u \in Threads : ~(pc[u] \in {"build", "send", "reply"})

(***************************************************************************)
(* Properties of the decoding of received images.                          *)
(***************************************************************************)
\* C37: decoding an RGBA image whose header declares a channel count other
\* than 3 or 4 is not silently accepted: the decode does not return an
\* image of the declared size, none of its pixels set, with the cursor
\* just after the 12 bytes of the header.
C37_ChannelCountRejected ==
  (/\ cdc.phase = "image" /\ cdc.channels \notin {3, 4}
   /\ cdc.height >= 1 /\ cdc.width >= 1)
  => ~(/\ cdc.decoded.value.height = cdc.height
       /\ cdc.decoded.value.width = cdc.width
       /\ cdc.decoded.value.pixels = << >>
       /\ cdc.decoded.index = cdc.start + 3 * SIZEOF_U32)

=============================================================================
